---- MODULE Spec2Model ----
(***************************************************************************)
(* A model of netsy's write path: the leader transaction engine            *)
(* (peerapi.LeaderTxn behind clientapi.Txn), the local index               *)
(* (localdb.InsertRecord / ReplicateRecord), the S3 adapter (chunk and     *)
(* snapshot objects), the snapshot worker, the watch fan-out (Distribute)  *)
(* and the startup backfill after a crash.                                 *)
(***************************************************************************)
EXTENDS Integers, Sequences, FiniteSets, TLC

(***************************************************************************)
(* Bounds of the model.                                                    *)
(***************************************************************************)
\* nextRevisionID is not advanced beyond MaxRevision + 1
MaxRevision == 3
\* number of process crashes explored
MaxCrashes == 3
\* number of watches one watcher stream may register
MaxWatches == 1

(***************************************************************************)
(* Program constants and configuration.                                    *)
(***************************************************************************)
\* write_record.go: partition := record.Revision % 10000
ChunkPartitions == 10000
\* capacity of the snapshot worker's request channel; the worker code uses
\* make(chan SnapshotRequest, 100)
RequestChCap == 100
\* config: snapshot_threshold_records (default 10000), configured low enough
\* for snapshot passes to happen within MaxRevision commits
SnapshotThresholdRecords == 2
\* config: snapshot_threshold_age_minutes (default 0 = disabled)
SnapshotThresholdAgeMinutes == 0
\* config: snapshot_threshold_size_mb (default 10000)
SnapshotThresholdSizeMB == 10000
\* config: s3_enabled (default true) and replication_mode (default synchronous)
S3Enabled == TRUE
ReplicationMode == "synchronous"
\* googlepb.Size(inserted), abstracted to one unit per record
RecordSize == 1
\* time.Now() is abstracted to a single non-zero instant; 0 is the zero time
Now == 1

Clients == {"c1", "c2"}
NoClient == "none"

\* keys are byte strings; the empty key is a possible input
KeyEmpty == <<>>
KeyA == <<97>>
KeyB == <<98>>
Keys == {KeyEmpty, KeyA}
Values == {"v1", "v2"}
NoValue == "nil"

Max(S) == CHOOSE x \in S : \A y \in S : y <= x

(***************************************************************************)
(* Records (proto.Record, restricted to the semantic fields).              *)
(***************************************************************************)
NoRecord == [revision |-> 0]

Rec(rev, key, value, created, deleted, crev, prev, version, lease) ==
  [revision |-> rev, key |-> key, value |-> value, created |-> created,
   deleted |-> deleted, create_revision |-> crev, prev_revision |-> prev,
   version |-> version, lease |-> lease]

(***************************************************************************)
(* The local index: a set of rows keyed by revision.                       *)
(***************************************************************************)
Revisions(idx) == {r.revision : r \in idx}

\* localdb.LatestRevision: MAX(revision) or 0 when empty
LatestRevision(idx) == IF idx = {} THEN 0 ELSE Max(Revisions(idx))

\* a latest-row lookup that ignores the key
LatestForTable(idx, key) ==
  IF idx = {} THEN NoRecord
  ELSE CHOOSE r \in idx : \A q \in idx : q.revision <= r.revision

\* CTE latest_revision_for_key of insertRecordSQL
LatestForKey(idx, key) ==
  LET rows == {r \in idx : r.key = key}
  IN IF rows = {} THEN NoRecord
     ELSE CHOOSE r \in rows : \A q \in rows : q.revision <= r.revision

\* (SELECT revision FROM latest_revision_for_key WHERE deleted = 0), IFNULL 0
LiveRevision(idx, key) ==
  LET l == LatestForKey(idx, key)
  IN IF l # NoRecord /\ ~l.deleted THEN l.revision ELSE 0

\* an insert statement without the prev_revision guard
NullColumnNoPrev(idx, record) ==
  LET l == LatestForKey(idx, record.key)
      live == l # NoRecord /\ ~l.deleted
  IN IF record.created /\ live THEN "created"
     ELSE IF record.deleted /\ ~live THEN "deleted"
     ELSE ""

\* the column of insertRecordSQL whose NOT NULL constraint fails first
\* (SQLite tests the NOT NULL columns in table order: created, deleted,
\* prev_revision), or "" when every column is non-null
NullColumn(idx, record) ==
  LET l == LatestForKey(idx, record.key)
      live == l # NoRecord /\ ~l.deleted
      liveRev == LiveRevision(idx, record.key)
  IN IF record.created /\ live THEN "created"
     ELSE IF record.deleted /\ ~live THEN "deleted"
     ELSE IF record.prev_revision > 0 /\ record.prev_revision # liveRev
       THEN "prev_revision"
     ELSE IF record.prev_revision <= 0 /\ liveRev > 0 THEN "prev_revision"
     ELSE ""

\* an insert statement that starts a new create_revision with every row
InsertedRowOwnCreate(idx, record) ==
  LET l == LatestForKey(idx, record.key)
  IN Rec(record.revision, record.key, record.value, record.created,
         record.deleted, LatestRevision(idx) + 1, record.prev_revision,
         IF record.deleted THEN 0
         ELSE (IF l = NoRecord THEN 0 ELSE l.version) + 1,
         record.lease)

\* an insert statement that counts a delete as one more version
InsertedRowCounting(idx, record) ==
  LET l == LatestForKey(idx, record.key)
      live == l # NoRecord /\ ~l.deleted
  IN Rec(record.revision, record.key, record.value, record.created,
         record.deleted,
         IF live THEN l.create_revision ELSE LatestRevision(idx) + 1,
         record.prev_revision,
         (IF l = NoRecord THEN 0 ELSE l.version) + 1,
         record.lease)

\* the row insertRecordSQL computes from the draft record
InsertedRow(idx, record) ==
  LET l == LatestForKey(idx, record.key)
      live == l # NoRecord /\ ~l.deleted
  IN Rec(record.revision, record.key, record.value, record.created,
         record.deleted,
         IF live THEN l.create_revision ELSE LatestRevision(idx) + 1,
         record.prev_revision,
         IF record.deleted THEN 0
         ELSE (IF l = NoRecord THEN 0 ELSE l.version) + 1,
         record.lease)

\* unique index records_key_create_rev_prev_rev_uindex and the primary key
UniqueViolation(idx, row) ==
  \/ row.revision \in Revisions(idx)
  \/ \E q \in idx : /\ q.key = row.key
                    /\ q.create_revision = row.create_revision
                    /\ q.prev_revision = row.prev_revision

\* localdb.InsertRecord: [err, row]; the row is what RETURNING * yields
InsertRecord(idx, record) ==
  IF \/ record.revision <= 0
     \/ Len(record.key) = 0
     \/ record.create_revision < 0
     \/ record.prev_revision < 0
     \/ record.version # 0
     \/ record.lease < 0
     \/ (record.created /\ record.deleted)
  THEN [err |-> "invalid record data for insert", row |-> NoRecord]
  ELSE LET col == NullColumn(idx, record)
           row == InsertedRow(idx, record)
       IN IF col = "created"
            THEN [err |-> "ErrCreateKeyExists", row |-> NoRecord]
          ELSE IF col = "deleted"
            THEN [err |-> "ErrDeleteKeyNotFound", row |-> NoRecord]
          ELSE IF col = "prev_revision"
            THEN [err |-> "ErrCompareRevisionFailed", row |-> NoRecord]
          ELSE IF UniqueViolation(idx, row)
            THEN [err |-> "constraint failed", row |-> NoRecord]
          ELSE [err |-> "", row |-> row]

\* localdb.ReplicateRecord: unchecked insert of the record as given
ReplicateRecord(idx, record) ==
  IF record.revision = 0 \/ UniqueViolation(idx, record)
  THEN [err |-> "replicate failed", idx |-> idx]
  ELSE [err |-> "", idx |-> idx \cup {record}]

\* localdb.FindAllRecordsForSnapshot: rows with revision <= upTo, ascending
RECURSIVE SortedRows(_)
SortedRows(rows) ==
  IF rows = {} THEN <<>>
  ELSE LET m == CHOOSE r \in rows : \A q \in rows : r.revision <= q.revision
       IN <<m>> \o SortedRows(rows \ {m})

\* every row of the index, whatever the revision asked for
FindAllRecords(idx, upTo) == SortedRows(idx)

FindAllRecordsForSnapshot(idx, upTo) ==
  SortedRows({r \in idx : r.revision <= upTo})

\* localdb.FindRecordByRev: the named result is never assigned
FindRecordByRev(idx, rev) == NoRecord

\* an integrity check that accepts every index
VerifyNothing(idx) == TRUE

\* localdb.VerifyIntegrity: COUNT(*) = COALESCE(MAX(revision), 0)
VerifyIntegrity(idx) == Cardinality(idx) = LatestRevision(idx)

\* localdb.FindRecordsBy with where "key = ?", revision 0, no limit:
\* the live latest row of the key; max_revision is scanned from the result
\* rows, so it stays 0 when no row is returned
FindRecordsBy(idx, key) ==
  LET l == LatestForKey(idx, key)
      rows == IF l # NoRecord /\ ~l.deleted THEN <<l>> ELSE <<>>
  IN [rows |-> rows,
      totalCount |-> Len(rows),
      maxRevision |-> IF Len(rows) = 0 THEN 0 ELSE LatestRevision(idx)]

KeyValue(row) ==
  [Key |-> row.key, CreateRevision |-> row.create_revision,
   ModRevision |-> row.revision, Value |-> row.value, Version |-> row.version,
   Lease |-> row.lease]

\* a range that returns the key's latest row even when it is a tombstone
RangeLatest(idx, key) ==
  LET l == LatestForKey(idx, key)
  IN [Header |-> [Revision |-> LatestRevision(idx)],
      Kvs |-> IF l = NoRecord THEN <<>> ELSE <<KeyValue(l)>>,
      Count |-> IF l = NoRecord THEN 0 ELSE 1]

\* commonapi.Range for a single-key request without options
Range(idx, key) ==
  LET f == FindRecordsBy(idx, key)
  IN [Header |-> [Revision |-> f.maxRevision],
      Kvs |-> [i \in 1..Len(f.rows) |-> KeyValue(f.rows[i])],
      Count |-> f.totalCount]

(***************************************************************************)
(* etcd Txn requests with one MOD/EQUAL compare, one success op and zero   *)
(* or one failure range on the compare's key.  key and mod are the         *)
(* compare's key and mod_revision; op, successKey, value, lease and prevKv *)
(* describe the success op ("range" stands for a success op that is        *)
(* neither a put nor a delete range); failure says whether the failure     *)
(* range is present.                                                       *)
(***************************************************************************)
Leases == {0, 1}

TxnRequests ==
  [key : Keys, mod : 0..MaxRevision, op : {"put"}, successKey : Keys,
   value : Values, lease : Leases, prevKv : BOOLEAN, failure : BOOLEAN]
  \cup [key : Keys, mod : 0..MaxRevision, op : {"delete"}, successKey : Keys,
        value : {NoValue}, lease : {0}, prevKv : BOOLEAN, failure : BOOLEAN]
  \cup [key : Keys, mod : 0..MaxRevision, op : {"range"}, successKey : Keys,
        value : {NoValue}, lease : {0}, prevKv : {FALSE}, failure : BOOLEAN]

\* the requests the clients of the serving leader issue: puts and deletes
\* without prev_kv and without a lease, on the compare's key
Requests ==
  {r \in TxnRequests : /\ r.op \in {"put", "delete"}
                       /\ r.successKey = r.key
                       /\ r.lease = 0
                       /\ ~r.prevKv}

NoRequest == [key |-> KeyEmpty, mod |-> 0, op |-> "none",
              successKey |-> KeyEmpty, value |-> NoValue, lease |-> 0,
              prevKv |-> FALSE, failure |-> FALSE]

\* a parser that takes a put with mod_revision > 0 and no failure range as
\* an update
ParseTxnRequestLax(r) ==
  IF r.op \in {"put", "delete"} /\ (r.prevKv \/ r.successKey # r.key)
    THEN [err |-> "invalid request", record |-> NoRecord]
  ELSE IF r.mod = 0 /\ r.op = "put"
    THEN [err |-> "",
          record |-> Rec(0, r.successKey, r.value, TRUE, FALSE, 0, 0, 0, r.lease)]
  ELSE IF r.mod > 0 /\ r.op = "put"
    THEN [err |-> "",
          record |-> Rec(0, r.successKey, r.value, FALSE, FALSE, 0, r.mod, 0,
                         r.lease)]
  ELSE IF r.mod > 0 /\ r.op = "delete" /\ r.failure
    THEN [err |-> "",
          record |-> Rec(0, r.successKey, NoValue, FALSE, TRUE, 0, r.mod, 0, 0)]
  ELSE [err |-> "ErrUnsupported", record |-> NoRecord]

\* peerapi.ParseTxnRequest: the prev_kv and key checks, then the
\* classification into create / update / delete
ParseTxnRequest(r) ==
  IF r.op \in {"put", "delete"} /\ r.prevKv
    THEN [err |-> "invalid request", record |-> NoRecord]
  ELSE IF r.op \in {"put", "delete"} /\ r.successKey # r.key
    THEN [err |-> "invalid request", record |-> NoRecord]
  ELSE IF r.mod = 0 /\ r.op = "put"
    THEN [err |-> "",
          record |-> Rec(0, r.successKey, r.value, TRUE, FALSE, 0, 0, 0, r.lease)]
  ELSE IF r.mod > 0 /\ r.op = "put" /\ r.failure
    THEN [err |-> "",
          record |-> Rec(0, r.successKey, r.value, FALSE, FALSE, 0, r.mod, 0,
                         r.lease)]
  ELSE IF r.mod > 0 /\ r.op = "delete" /\ r.failure
    THEN [err |-> "",
          record |-> Rec(0, r.successKey, NoValue, FALSE, TRUE, 0, r.mod, 0, 0)]
  ELSE [err |-> "ErrUnsupported", record |-> NoRecord]

NoResponse == [kind |-> "none", Header |-> [Revision |-> 0],
               Succeeded |-> FALSE, Responses |-> <<>>]

NoRange == [Header |-> [Revision |-> -1], Kvs |-> <<>>, Count |-> 0]

\* a response builder that answers a committed delete like a put
BuildTxnResponsePut(record, rangeResp) ==
  IF rangeResp # NoRange
    THEN [kind |-> "txn", Header |-> [Revision |-> rangeResp.Header.Revision],
          Succeeded |-> FALSE,
          Responses |-> <<[op |-> "ResponseRange", Range |-> rangeResp]>>]
  ELSE [kind |-> "txn", Header |-> [Revision |-> record.revision],
        Succeeded |-> TRUE,
        Responses |-> <<[op |-> "ResponsePut",
                         Header |-> [Revision |-> record.revision]]>>]

\* peerapi.BuildTxnResponse
BuildTxnResponse(record, rangeResp) ==
  IF rangeResp # NoRange
    THEN [kind |-> "txn", Header |-> [Revision |-> rangeResp.Header.Revision],
          Succeeded |-> FALSE,
          Responses |-> <<[op |-> "ResponseRange", Range |-> rangeResp]>>]
  ELSE IF record # NoRecord /\ record.deleted
    THEN [kind |-> "txn", Header |-> [Revision |-> record.revision],
          Succeeded |-> TRUE,
          Responses |-> <<[op |-> "ResponseDeleteRange",
                           Header |-> [Revision |-> record.revision],
                           Deleted |-> 1]>>]
  ELSE IF record # NoRecord
    THEN [kind |-> "txn", Header |-> [Revision |-> record.revision],
          Succeeded |-> TRUE,
          Responses |-> <<[op |-> "ResponsePut",
                           Header |-> [Revision |-> record.revision]]>>]
  ELSE [kind |-> "txn", Header |-> [Revision |-> 0], Succeeded |-> FALSE,
        Responses |-> <<>>]

(***************************************************************************)
(* S3 objects: chunk and snapshot files under the conventional key layout. *)
(***************************************************************************)
\* write_record.go: chunks/{revision % 10000}/{revision}.netsy
ChunkKey(rev) ==
  [dir |-> "chunks", partition |-> rev % ChunkPartitions, revision |-> rev]

\* createSnapshot: snapshots/{upToRevision}.netsy
SnapshotKey(rev) == [dir |-> "snapshots", partition |-> 0, revision |-> rev]

\* a data file: header kind and count, then the records
DataFile(kind, records) ==
  [kind |-> kind, count |-> Len(records), records |-> records]

ObjectExists(objs, key) == \E o \in objs : o.key = key

\* s3client.ListSnapshots: snapshot objects, newest first
\* s3client.GetLatestSnapshot: the first of them, or Found = FALSE
GetLatestSnapshot(objs) ==
  LET snaps == {o \in objs : o.key.dir = "snapshots"}
  IN IF snaps = {} THEN [Found |-> FALSE, Revision |-> 0, Key |-> SnapshotKey(0)]
     ELSE LET o == CHOOSE x \in snaps :
                     \A y \in snaps : y.key.revision <= x.key.revision
          IN [Found |-> TRUE, Revision |-> o.key.revision, Key |-> o.key]

RECURSIVE SortedObjects(_)
SortedObjects(objs) ==
  IF objs = {} THEN <<>>
  ELSE LET m == CHOOSE o \in objs :
                  \A q \in objs : o.key.revision <= q.key.revision
       IN <<m>> \o SortedObjects(objs \ {m})

\* every chunk object, whatever the local latest revision
ListChunksAll(objs, fromRevision) ==
  SortedObjects({o \in objs : o.key.dir = "chunks"})

\* s3client.ListChunks: chunk objects with revision > fromRevision, ascending
ListChunks(objs, fromRevision) ==
  SortedObjects({o \in objs : o.key.dir = "chunks"
                              /\ o.key.revision > fromRevision})

\* every chunk object, whatever its revision
ChunksAnyRevision(objs, upTo) ==
  {o \in objs : o.key.dir = "chunks"}

\* s3client.ListChunksForCleanup: chunk objects with revision <= upTo
ListChunksForCleanup(objs, upTo) ==
  {o \in objs : o.key.dir = "chunks" /\ o.key.revision <= upTo}

(***************************************************************************)
(* Backfill (internal.Backfill): latest snapshot into an empty index, then *)
(* every newer chunk in ascending order, through ReplicateRecord.          *)
(***************************************************************************)
RECURSIVE ReplicateAll(_, _)
ReplicateAll(idx, records) ==
  IF Len(records) = 0 THEN [err |-> "", idx |-> idx]
  ELSE LET r == ReplicateRecord(idx, Head(records))
       IN IF r.err # "" THEN r ELSE ReplicateAll(r.idx, Tail(records))

\* backfill.importFromReader: the reader checks the expected kind
ImportFile(idx, file, expectedKind) ==
  IF file.kind # expectedKind \/ file.count # Len(file.records)
  THEN [err |-> "failed to create datafile reader", idx |-> idx]
  ELSE ReplicateAll(idx, file.records)

RECURSIVE ImportChunks(_, _)
ImportChunks(idx, chunks) ==
  IF Len(chunks) = 0 THEN [err |-> "", idx |-> idx]
  ELSE LET r == ImportFile(idx, Head(chunks).file, "CHUNK")
       IN IF r.err # "" THEN r ELSE ImportChunks(r.idx, Tail(chunks))

Backfill(idx, objs, latestRevision, snap) ==
  LET afterSnap ==
        IF latestRevision = 0 /\ snap.Found
        THEN ImportFile(idx, (CHOOSE o \in objs : o.key = snap.Key).file,
                        "SNAPSHOT")
        ELSE [err |-> "", idx |-> idx]
  IN IF ~S3Enabled THEN [err |-> "", idx |-> idx]
     ELSE IF afterSnap.err # "" THEN afterSnap
     ELSE ImportChunks(afterSnap.idx,
                       ListChunks(objs, LatestRevision(afterSnap.idx)))

(***************************************************************************)
(* Snapshot thresholds (snapshot.Worker.shouldCreateSnapshot).             *)
(***************************************************************************)
BytesPerMB == 1048576

\* shouldCreateSnapshot under a configuration's three thresholds
ShouldCreateSnapshotNoGuard(config, currentRevision, currentTime, cumSize, lastRevision, lastTime) ==
  IF config.records > 0
     /\ currentRevision - lastRevision >= config.records THEN TRUE
  ELSE IF config.ageMinutes > 0
          /\ (lastTime = 0 \/ currentTime - lastTime >= config.ageMinutes)
       THEN TRUE
  ELSE IF config.sizeMB > 0
          /\ cumSize \div BytesPerMB >= config.sizeMB THEN TRUE
  ELSE FALSE

\* Worker.shouldCreateSnapshot; times are minutes, 0 is the zero time
shouldCreateSnapshot(config, currentRevision, currentTime, cumSize, lastRevision, lastTime) ==
  IF currentRevision <= lastRevision THEN FALSE
  ELSE IF config.records > 0
          /\ currentRevision - lastRevision >= config.records THEN TRUE
  ELSE IF config.ageMinutes > 0
          /\ (lastTime = 0 \/ currentTime - lastTime >= config.ageMinutes)
       THEN TRUE
  ELSE IF config.sizeMB > 0
          /\ cumSize \div BytesPerMB >= config.sizeMB THEN TRUE
  ELSE FALSE

\* the call of the running worker, under the configuration of this leader
ShouldCreateSnapshot(currentRevision, currentTime, cumSize, lastRevision, lastTime) ==
  shouldCreateSnapshot([records |-> SnapshotThresholdRecords,
                        ageMinutes |-> SnapshotThresholdAgeMinutes,
                        sizeMB |-> SnapshotThresholdSizeMB],
                       currentRevision, currentTime, cumSize, lastRevision,
                       lastTime)

(***************************************************************************)
(* Watch matching (clientapi.isWatchMatch / isInRange) over byte strings.  *)
(***************************************************************************)
ZeroByte == <<0>>

RECURSIVE BytesCompare(_, _)
\* bytes.Compare: -1, 0 or 1
BytesCompare(a, b) ==
  IF Len(a) = 0 /\ Len(b) = 0 THEN 0
  ELSE IF Len(a) = 0 THEN -1
  ELSE IF Len(b) = 0 THEN 1
  ELSE IF Head(a) < Head(b) THEN -1
  ELSE IF Head(a) > Head(b) THEN 1
  ELSE BytesCompare(Tail(a), Tail(b))

\* bytes.HasPrefix
HasPrefix(s, prefix) ==
  Len(prefix) <= Len(s) /\ SubSeq(s, 1, Len(prefix)) = prefix

RECURSIVE TrimRightZero(_)
\* bytes.TrimRight(s, "\x00")
TrimRightZero(s) ==
  IF Len(s) > 0 /\ s[Len(s)] = 0 THEN TrimRightZero(SubSeq(s, 1, Len(s) - 1))
  ELSE s

\* rangeKey with its last byte incremented (byte arithmetic wraps at 256);
\* only computed for a non-empty record key and a non-empty range key
RangeEndPrefixValue(rangeKey) ==
  SubSeq(rangeKey, 1, Len(rangeKey) - 1)
    \o <<(rangeKey[Len(rangeKey)] + 1) % 256>>

isInRange(key, rangeKey, rangeEnd) ==
  IF Len(rangeEnd) = 0 \/ rangeEnd = rangeKey \o ZeroByte
    THEN key = TrimRightZero(rangeKey)
  ELSE IF rangeKey = ZeroByte /\ rangeEnd = ZeroByte THEN TRUE
  ELSE IF rangeEnd = ZeroByte THEN BytesCompare(key, rangeKey) >= 0
  ELSE IF Len(key) > 0 /\ Len(rangeKey) > 0
          /\ rangeEnd = RangeEndPrefixValue(rangeKey)
    THEN HasPrefix(key, rangeKey)
  ELSE BytesCompare(key, rangeKey) >= 0 /\ BytesCompare(key, rangeEnd) < 0

\* a match that drops delete events whatever the filters
isWatchMatchNoDelete(w, record) ==
  ~record.deleted /\ isInRange(record.key, w.key, w.rangeEnd)

isWatchMatch(w, record) ==
  IF w.filtersNoPut /\ ~record.deleted THEN FALSE
  ELSE IF w.filtersNoDelete /\ record.deleted THEN FALSE
  ELSE IF w.startRevision > record.revision THEN FALSE
  ELSE isInRange(record.key, w.key, w.rangeEnd)

\* clientv3.AutoWatchID: the request leaves the watch id to the server
AutoWatchID == 0

\* the watch create requests the model issues (server-assigned watch ids);
\* Compacted stands for the compacted_at column of the record at the start
\* revision, which nothing in this code sets: it comes with the request
WatchKeys == {KeyA}
WatchRangeEnds == {<<>>}
WatchStartRevisions == {0, 2}

\* at most one option of a request departs from its default
WatchCreateRequests ==
  {r \in [Key : WatchKeys, RangeEnd : WatchRangeEnds,
          StartRevision : WatchStartRevisions, PrevKv : BOOLEAN,
          NoPut : BOOLEAN, ProgressNotify : BOOLEAN,
          WatchId : {AutoWatchID}, Compacted : {FALSE}] :
     Cardinality({o \in {"start", "prev", "noput", "notify"} :
                    \/ o = "start" /\ r.StartRevision # 0
                    \/ o = "prev" /\ r.PrevKv
                    \/ o = "noput" /\ r.NoPut
                    \/ o = "notify" /\ r.ProgressNotify}) <= 1}

\* the message Distribute pushes for one matching watch
WatchEvent(watchID, w, record, prevRecord) ==
  [WatchId |-> watchID,
   Header |-> [Revision |-> record.revision],
   Type |-> IF record.deleted THEN "DELETE" ELSE "PUT",
   Kv |-> KeyValue(record),
   PrevKv |-> IF ~w.prevKv THEN "none"
              ELSE IF prevRecord # NoRecord THEN "record"
              ELSE "placeholder"]

RECURSIVE EventsFor(_, _, _)
\* the messages one Distribute call pushes to a watcher's inbox, one per
\* matching watch (map iteration order is modelled by ascending watch id)
EventsFor(ws, record, prevRecord) ==
  IF ws = {} THEN <<>>
  ELSE LET w == CHOOSE x \in ws : \A y \in ws : x.id <= y.id
       IN (IF isWatchMatch(w, record)
           THEN <<WatchEvent(w.id, w, record, prevRecord)>> ELSE <<>>)
          \o EventsFor(ws \ {w}, record, prevRecord)

(***************************************************************************)
(* State.                                                                  *)
(***************************************************************************)
Watchers == {"w1"}

VARIABLES
  phase,                \* "serving" once startup completed, "down" after a crash
  crashes,              \* number of crashes so far
  index,                \* committed rows of the local index (the sqlite file)
  nextRevisionID,       \* PeerAPIServer.nextRevisionID
  leaderTxnMutex,       \* holder of PeerAPIServer.leaderTxnMutex
  pc,                   \* position of each client's Txn call
  req,                  \* the TxnRequest of the call in LeaderTxn
  inserted,             \* the row inserted by the call (in its transaction,
                        \* then committed), or NoRecord
  err,                  \* the error LeaderTxn returns, "" for none
  resp,                 \* the TxnResponse LeaderTxn returns
  s3,                   \* the objects in the bucket
  requestCh,            \* snapshot.Worker.requestCh
  lastSnapshotRevision, \* snapshot.Worker state
  lastSnapshotTime,
  cumulativeSize,
  wpc,                  \* snapshot worker position: "idle" or "cleanup"
  wUpTo,                \* upToRevision of the running createSnapshot
  watcherOpen,          \* allWatchers.servers membership
  watches,              \* watcher.watches
  inbox,                \* messages pushed on watcher.inboxCh, in order
  watchIDCounter,       \* global watchIDCounter
  acked,                \* rows whose Txn was answered Succeeded = true
  wWriter,              \* watcher.RWMutex: held for writing (by Cleanup)
  wReaders,             \* watcher.RWMutex: the goroutines holding it for reading
  allReaders,           \* allWatchers.RWMutex: the Distribute calls holding it
  inboxOk,              \* watcher.inboxOk
  inboxClosed,          \* watcher.inboxCh has been closed
  sender,               \* the goroutine that drains inboxCh into client.Send
  stream,               \* position of the Watch call on its stream
  ticker,               \* position of the progress poll goroutine
  dist,                 \* position of each client's Distribute call
  sentOnClosed,         \* a send on a closed inboxCh has happened (a panic)
  codec,                \* a datafile Writer, its file and the Reader of it
  match,                \* one call of isWatchMatch and its result
  replies,              \* the responses the last CreateWatch of a stream
                        \* sent with client.Send, not through the inbox
  policy,               \* one call of shouldCreateSnapshot and its result
  events                \* one Distribute call over several watches: its shared
                        \* event, the draining goroutines, what the clients got

leaderVars == <<phase, crashes, index, nextRevisionID, leaderTxnMutex, pc, req,
          inserted, err, resp, s3, requestCh, lastSnapshotRevision,
          lastSnapshotTime, cumulativeSize, wpc, wUpTo, watcherOpen, watches,
          inbox, watchIDCounter, acked, wWriter, wReaders, allReaders,
          inboxOk, inboxClosed, sender, stream, ticker, dist, sentOnClosed>>

\* the functions exercised on their own, outside the running leader, and
\* what the streams' clients were sent directly
sideVars == <<codec, match, replies, policy, events>>

vars == <<leaderVars, sideVars>>

txnVars == <<pc, req, inserted, err, resp, leaderTxnMutex>>
workerVars == <<requestCh, lastSnapshotRevision, lastSnapshotTime,
                cumulativeSize, wpc, wUpTo>>
lockVars == <<wWriter, wReaders, allReaders, inboxOk, inboxClosed, sender,
              stream, ticker, dist, sentOnClosed>>
watchVars == <<watcherOpen, watches, inbox, watchIDCounter, lockVars>>

\* a goroutine of a watcher at a position, with no message left to send
At(position) == [at |-> position, msgs |-> <<>>]

\* a Distribute call that is not running
NoDistribute == [at |-> "none", todo |-> {}, w |-> "none", msgs |-> <<>>]

\* no watcher, no lock held, no goroutine of the watch service running
InitWatchers ==
  /\ wWriter = [w \in Watchers |-> FALSE]
  /\ wReaders = [w \in Watchers |-> {}]
  /\ allReaders = {}
  /\ inboxOk = [w \in Watchers |-> FALSE]
  /\ inboxClosed = [w \in Watchers |-> FALSE]
  /\ sender = [w \in Watchers |-> "none"]
  /\ stream = [w \in Watchers |-> At("none")]
  /\ ticker = [w \in Watchers |-> At("idle")]
  /\ dist = [c \in Clients |-> NoDistribute]
  /\ sentOnClosed = FALSE

SyncMode == S3Enabled /\ ReplicationMode = "synchronous"

\* the state after a successful first startup against an empty bucket
InitLeader ==
  /\ phase = "serving"
  /\ crashes = 0
  /\ index = {}
  /\ nextRevisionID = 1
  /\ leaderTxnMutex = NoClient
  /\ pc = [c \in Clients |-> "idle"]
  /\ req = [c \in Clients |-> NoRequest]
  /\ inserted = [c \in Clients |-> NoRecord]
  /\ err = [c \in Clients |-> ""]
  /\ resp = [c \in Clients |-> NoResponse]
  /\ s3 = {}
  /\ requestCh = <<>>
  /\ lastSnapshotRevision = 0
  /\ lastSnapshotTime = 0
  /\ cumulativeSize = 0
  /\ wpc = "idle"
  /\ wUpTo = 0
  /\ watcherOpen = [w \in Watchers |-> FALSE]
  /\ watches = [w \in Watchers |-> {}]
  /\ inbox = [w \in Watchers |-> <<>>]
  /\ watchIDCounter = 0
  /\ acked = {}
  /\ InitWatchers

\* no codec and no match call in progress
InitPure ==
  /\ codec = [at |-> "none"]
  /\ match = [at |-> "none"]
  /\ policy = [at |-> "none"]
  /\ events = [at |-> "none"]
  /\ replies = [w \in Watchers |-> <<>>]

Init == InitLeader /\ InitPure

(***************************************************************************)
(* The leader transaction (peerapi.LeaderTxn) and its RPC handler          *)
(* (clientapi.Txn).                                                        *)
(***************************************************************************)
\* snapshot.Worker.RequestSnapshot: non-blocking send, dropped when full
RequestSnapshot(ch, revision, size) ==
  IF Len(ch) < RequestChCap
  THEN Append(ch, [Revision |-> revision, Timestamp |-> Now, RecordSize |-> size])
  ELSE ch

\* LeaderTxn finished with an error: nothing inserted, no response
Failed(c, e) ==
  /\ pc' = [pc EXCEPT ![c] = "built"]
  /\ err' = [err EXCEPT ![c] = e]
  /\ resp' = [resp EXCEPT ![c] = NoResponse]
  /\ inserted' = [inserted EXCEPT ![c] = NoRecord]

\* LeaderTxn finished with a response
Built(c, row, rangeResp) ==
  /\ pc' = [pc EXCEPT ![c] = "built"]
  /\ err' = [err EXCEPT ![c] = ""]
  /\ resp' = [resp EXCEPT ![c] = BuildTxnResponse(row, rangeResp)]
  /\ inserted' = [inserted EXCEPT ![c] = row]

\* a lock that never blocks
LockFree(c) == leaderTxnMutex' = c

\* leaderTxnMutex.Lock() by the call of client c
Lock(c) ==
  /\ leaderTxnMutex = NoClient
  /\ leaderTxnMutex' = c

\* LeaderTxn up to the index insert: lock, parse, assign the revision, begin
\* the index transaction, InsertRecord; on a compare failure with a failure
\* op the rollback and the failure range
TxnBegin(c, r, dbOk) ==
  /\ phase = "serving"
  /\ pc[c] = "idle"
  /\ Lock(c)
  /\ nextRevisionID <= MaxRevision
  /\ req' = [req EXCEPT ![c] = r]
  /\ LET p == ParseTxnRequest(r)
         record == [p.record EXCEPT !.revision = nextRevisionID]
         ins == InsertRecord(index, record)
     IN IF p.err # "" THEN
          /\ Failed(c, p.err)
          /\ UNCHANGED <<index, nextRevisionID, requestCh>>
        ELSE IF SyncMode THEN
          /\ UNCHANGED <<index, nextRevisionID, requestCh>>
          /\ IF ~dbOk THEN Failed(c, "failed to begin transaction")
             ELSE IF ins.err = "ErrCompareRevisionFailed" /\ r.failure
               THEN Built(c, NoRecord, Range(index, record.key))
             ELSE IF ins.err # "" THEN Failed(c, ins.err)
             ELSE /\ pc' = [pc EXCEPT ![c] = "upload"]
                  /\ inserted' = [inserted EXCEPT ![c] = ins.row]
                  /\ UNCHANGED <<err, resp>>
        ELSE
          IF ins.err = "ErrCompareRevisionFailed" /\ r.failure THEN
            /\ Built(c, NoRecord, Range(index, record.key))
            /\ UNCHANGED <<index, nextRevisionID, requestCh>>
          ELSE IF ins.err = "" THEN
            /\ index' = index \cup {ins.row}
            /\ nextRevisionID' = nextRevisionID + 1
            /\ requestCh' = IF S3Enabled
                            THEN RequestSnapshot(requestCh, ins.row.revision, RecordSize)
                            ELSE requestCh
            /\ Built(c, ins.row, NoRange)
          ELSE
            /\ Failed(c, ins.err)
            /\ UNCHANGED <<index, nextRevisionID, requestCh>>
  /\ UNCHANGED <<sideVars, phase, crashes, s3, lastSnapshotRevision, lastSnapshotTime,
                 cumulativeSize, wpc, wUpTo, watchVars, acked>>

\* the chunk file WriteRecord builds for a record
ChunkObject(row) ==
  [key |-> ChunkKey(row.revision), file |-> DataFile("CHUNK", <<row>>)]

\* a LeaderTxn that goes on to the commit whatever the put returned
WriteRecordIgnored(c, outcome) ==
  /\ phase = "serving"
  /\ pc[c] = "upload"
  /\ outcome \in {"stored", "failed"}
  /\ s3' = IF outcome = "stored" THEN s3 \cup {ChunkObject(inserted[c])} ELSE s3
  /\ pc' = [pc EXCEPT ![c] = "commit"]
  /\ UNCHANGED <<sideVars, phase, crashes, index, nextRevisionID, leaderTxnMutex, req,
                 inserted, err, resp, workerVars, watchVars, acked>>

\* s3client.WriteRecord inside LeaderTxn: PutObject with If-None-Match: *,
\* retried once.  A put of an absent object either stores it and reports
\* success, stores it and reports an error (the reply is lost), or fails
\* without storing; a put of an existing object fails.  outcome is what the
\* two attempts amount to.
WriteRecord(c, outcome) ==
  /\ phase = "serving"
  /\ pc[c] = "upload"
  /\ LET obj == ChunkObject(inserted[c])
         exists == ObjectExists(s3, obj.key)
     IN /\ outcome \in (IF exists THEN {"failed"}
                        ELSE {"stored", "stored-but-failed", "failed"})
        /\ s3' = IF outcome \in {"stored", "stored-but-failed"}
                 THEN s3 \cup {obj} ELSE s3
        /\ IF outcome = "stored"
           THEN /\ pc' = [pc EXCEPT ![c] = "commit"]
                /\ UNCHANGED <<inserted, err, resp>>
           ELSE Failed(c, "S3 upload failed")
  /\ UNCHANGED <<sideVars, phase, crashes, index, nextRevisionID, leaderTxnMutex, req,
                 workerVars, watchVars, acked>>

\* a LeaderTxn that advances the counter after a failed commit too
CommitCounted(c, ok) ==
  /\ phase = "serving"
  /\ pc[c] = "commit"
  /\ nextRevisionID' = nextRevisionID + 1
  /\ IF ok THEN
       /\ index' = index \cup {inserted[c]}
       /\ requestCh' = RequestSnapshot(requestCh, inserted[c].revision, RecordSize)
       /\ Built(c, inserted[c], NoRange)
     ELSE
       /\ Failed(c, "failed to commit transaction")
       /\ UNCHANGED <<index, requestCh>>
  /\ UNCHANGED <<sideVars, phase, crashes, leaderTxnMutex, req, s3, lastSnapshotRevision,
                 lastSnapshotTime, cumulativeSize, wpc, wUpTo, watchVars, acked>>

\* tx.Commit and what follows it in LeaderTxn: the counter, the snapshot
\* request and the response; a failed commit leaves the index unchanged
Commit(c, ok) ==
  /\ phase = "serving"
  /\ pc[c] = "commit"
  /\ IF ok THEN
       /\ index' = index \cup {inserted[c]}
       /\ nextRevisionID' = nextRevisionID + 1
       /\ requestCh' = RequestSnapshot(requestCh, inserted[c].revision, RecordSize)
       /\ Built(c, inserted[c], NoRange)
     ELSE
       /\ Failed(c, "failed to commit transaction")
       /\ UNCHANGED <<index, nextRevisionID, requestCh>>
  /\ UNCHANGED <<sideVars, phase, crashes, leaderTxnMutex, req, s3, lastSnapshotRevision,
                 lastSnapshotTime, cumulativeSize, wpc, wUpTo, watchVars, acked>>

\* the response clientapi.Txn returns for LeaderTxn's result: after an error
\* a header-only response carrying the latest revision
ClientResponse(c) ==
  IF err[c] # ""
  THEN [kind |-> "txn", Header |-> [Revision |-> LatestRevision(index)],
        Succeeded |-> FALSE, Responses |-> <<>>]
  ELSE resp[c]

\* what the Txn RPC hands to gRPC: the response and the error, which is nil
\* on every path of clientapi.Txn
TxnRpc(c) == [resp |-> ClientResponse(c), err |-> "nil"]

\* LeaderTxn returns (the deferred unlock of leaderTxnMutex) to
\* clientapi.Txn.  With no inserted record Txn has nothing left to do but
\* return its response; with one it goes on to Distribute.
LeaderTxnReturn(c) ==
  /\ phase = "serving"
  /\ pc[c] = "built"
  /\ leaderTxnMutex' = NoClient
  /\ req' = [req EXCEPT ![c] = NoRequest]
  /\ err' = [err EXCEPT ![c] = ""]
  /\ resp' = [resp EXCEPT ![c] = NoResponse]
  /\ pc' = [pc EXCEPT ![c] = IF inserted[c] = NoRecord THEN "idle" ELSE "returned"]
  /\ UNCHANGED <<sideVars, phase, crashes, index, nextRevisionID, inserted, s3,
                 workerVars, watchVars, acked>>

\* clientapi.Distribute: push one message per matching watch
Distribute(record, prevRecord) ==
  [w \in Watchers |->
     IF watcherOpen[w]
     THEN inbox[w] \o EventsFor(watches[w], record, prevRecord)
     ELSE inbox[w]]

\* the rest of clientapi.Txn after a commit: the previous record, Distribute,
\* and the response (Succeeded = true) to the client
TxnFinish(c) ==
  /\ phase = "serving"
  /\ pc[c] = "returned"
  /\ pc' = [pc EXCEPT ![c] = "idle"]
  /\ LET prevRecord ==
           IF ~inserted[c].created /\ inserted[c].prev_revision > 0
           THEN FindRecordByRev(index, inserted[c].prev_revision)
           ELSE NoRecord
     IN inbox' = Distribute(inserted[c], prevRecord)
  /\ acked' = acked \cup {inserted[c]}
  /\ inserted' = [inserted EXCEPT ![c] = NoRecord]
  /\ UNCHANGED <<sideVars, phase, crashes, index, nextRevisionID, leaderTxnMutex, req,
                 err, resp, s3, workerVars, watcherOpen, watches, watchIDCounter,
                 lockVars>>

(***************************************************************************)
(* Watch streams (clientapi.Watch, watcher.CreateWatch / CancelWatch /     *)
(* Cleanup).  inbox[w] is the sequence of messages that went through the   *)
(* watcher's inbox channel since the stream opened.                        *)
(***************************************************************************)
\* clientapi.Watch up to its receive loop: a new watcher in allWatchers
OpenWatch(w) ==
  /\ phase = "serving"
  /\ ~watcherOpen[w]
  /\ watcherOpen' = [watcherOpen EXCEPT ![w] = TRUE]
  /\ watches' = [watches EXCEPT ![w] = {}]
  /\ inbox' = [inbox EXCEPT ![w] = <<>>]
  /\ replies' = [replies EXCEPT ![w] = <<>>]
  /\ UNCHANGED <<codec, match, policy, events, phase, crashes, index, nextRevisionID, txnVars, s3,
                 workerVars, watchIDCounter, acked, lockVars>>

\* localdb.GetRevision as CreateWatch uses it: the revision when a record
\* has it (0 and an error otherwise), and whether its compacted_at is set
GetRevision(idx, findRevision, compactedAt) ==
  LET found == findRevision \in Revisions(idx)
  IN [found |-> found,
      revision |-> IF found THEN findRevision ELSE 0,
      compacted |-> found /\ compactedAt]

\* a WatchResponse that CreateWatch sends with w.client.Send
WatchReply(created, watchID, revision, cancelReason, compactRevision) ==
  [Created |-> created, Canceled |-> ~created, WatchId |-> watchID,
   Header |-> [Revision |-> revision], CancelReason |-> cancelReason,
   CompactRevision |-> compactRevision]

\* a CreateWatch that registers whatever the request says
CreateWatchRegistering(w, r) ==
  /\ phase = "serving"
  /\ watcherOpen[w]
  /\ watchIDCounter < MaxWatches
  /\ watchIDCounter' = watchIDCounter + 1
  /\ watches' = [watches EXCEPT ![w] = @ \cup
       {[id |-> watchIDCounter + 1, key |-> r.Key, rangeEnd |-> r.RangeEnd,
         startRevision |-> r.StartRevision, prevKv |-> r.PrevKv,
         filtersNoPut |-> r.NoPut, filtersNoDelete |-> FALSE,
         progressNotify |-> r.ProgressNotify,
         createdRevision |-> LatestRevision(index)]}]
  /\ replies' = [replies EXCEPT ![w] =
       << WatchReply(TRUE, watchIDCounter + 1, LatestRevision(index), "", 0) >>]
  /\ UNCHANGED <<codec, match, policy, events, phase, crashes, index, nextRevisionID, txnVars,
                 s3, workerVars, watcherOpen, inbox, acked, lockVars>>

\* a create request on the stream: LatestRevision, then watcher.CreateWatch.
\* A request with a watch id of its own is answered created + canceled
\* before a watch id is drawn; a start revision that is compacted, or that
\* is not in the index and not in the future, is answered created +
\* canceled after it; both register nothing.
CreateWatch(w, r) ==
  /\ phase = "serving"
  /\ watcherOpen[w]
  /\ LET latestRevision == LatestRevision(index)
         g == GetRevision(index, r.StartRevision, r.Compacted)
         watchID == watchIDCounter + 1
         failed == r.StartRevision # 0 /\ (~g.found \/ g.compacted)
         rejected == failed /\ (g.compacted \/ r.StartRevision <= latestRevision)
         revision == IF r.StartRevision # 0 /\ g.found
                     THEN r.StartRevision ELSE latestRevision
         respRevision == IF r.StartRevision = 0 THEN latestRevision
                         ELSE IF rejected /\ ~g.compacted THEN r.StartRevision
                         ELSE g.revision
         watchData == [id |-> watchID,
                       key |-> r.Key,
                       rangeEnd |-> r.RangeEnd,
                       startRevision |-> r.StartRevision,
                       prevKv |-> r.PrevKv,
                       filtersNoPut |-> r.NoPut,
                       filtersNoDelete |-> FALSE,
                       progressNotify |-> r.ProgressNotify,
                       createdRevision |-> revision]
     IN IF r.WatchId # AutoWatchID THEN
          /\ replies' = [replies EXCEPT ![w] =
               << WatchReply(TRUE, r.WatchId, latestRevision, "", 0),
                  WatchReply(FALSE, r.WatchId, latestRevision,
                             "user-provided watch IDs are unsupported", 0) >>]
          /\ UNCHANGED <<watches, watchIDCounter>>
        ELSE
          /\ watchIDCounter < MaxWatches
          /\ watchIDCounter' = watchID
          /\ IF rejected THEN
               /\ replies' = [replies EXCEPT ![w] =
                    << WatchReply(TRUE, watchID, respRevision, "", 0),
                       WatchReply(FALSE, watchID, respRevision,
                                  IF g.compacted
                                  THEN "revision has been compacted"
                                  ELSE "failed to get revision",
                                  IF g.compacted THEN r.StartRevision ELSE 0) >>]
               /\ UNCHANGED watches
             ELSE
               /\ watches' = [watches EXCEPT ![w] = @ \cup {watchData}]
               /\ replies' = [replies EXCEPT ![w] =
                    << WatchReply(TRUE, watchID, respRevision, "", 0) >>]
  /\ UNCHANGED <<codec, match, policy, events, phase, crashes, index, nextRevisionID, txnVars,
                 s3, workerVars, watcherOpen, inbox, acked, lockVars>>

\* a cancel request on the stream: watcher.CancelWatch
CancelWatch(w, watchID) ==
  /\ phase = "serving"
  /\ watcherOpen[w]
  /\ \E x \in watches[w] : x.id = watchID
  /\ watches' = [watches EXCEPT ![w] = {x \in @ : x.id # watchID}]
  /\ UNCHANGED <<sideVars, phase, crashes, index, nextRevisionID, txnVars, s3,
                 workerVars, watcherOpen, inbox, watchIDCounter, acked,
                 lockVars>>

\* the stream ends: watcher.Cleanup closes the inbox, drops the watches and
\* removes the watcher from allWatchers
Cleanup(w) ==
  /\ phase = "serving"
  /\ watcherOpen[w]
  /\ watcherOpen' = [watcherOpen EXCEPT ![w] = FALSE]
  /\ watches' = [watches EXCEPT ![w] = {}]
  /\ inbox' = [inbox EXCEPT ![w] = <<>>]
  /\ UNCHANGED <<sideVars, phase, crashes, index, nextRevisionID, txnVars, s3,
                 workerVars, watchIDCounter, acked, lockVars>>

(***************************************************************************)
(* The snapshot worker (snapshot.Worker.processRequest / createSnapshot).  *)
(***************************************************************************)
SnapshotObject(records, upTo) ==
  [key |-> SnapshotKey(upTo), file |-> DataFile("SNAPSHOT", records)]

\* s3client.UploadFile: an unconditional put, replacing the object at key
UploadFile(objs, obj) ==
  {o \in objs : o.key # obj.key} \cup {obj}

\* processRequest and createSnapshot up to the upload: the request is taken
\* off the channel, the thresholds are evaluated and the worker state is
\* updated, then the records are read and the snapshot is uploaded
ProcessRequest(uploadOk) ==
  /\ phase = "serving"
  /\ wpc = "idle"
  /\ Len(requestCh) > 0
  /\ LET r == Head(requestCh)
         size == cumulativeSize + r.RecordSize
         shouldCreate == ShouldCreateSnapshot(r.Revision, r.Timestamp, size,
                                              lastSnapshotRevision, lastSnapshotTime)
         records == FindAllRecordsForSnapshot(index, r.Revision)
         uploaded == shouldCreate /\ Len(records) > 0 /\ uploadOk
     IN /\ requestCh' = Tail(requestCh)
        /\ lastSnapshotRevision' = IF shouldCreate THEN r.Revision
                                   ELSE lastSnapshotRevision
        /\ lastSnapshotTime' = IF shouldCreate THEN r.Timestamp
                               ELSE lastSnapshotTime
        /\ cumulativeSize' = IF shouldCreate THEN 0 ELSE size
        /\ s3' = IF uploaded THEN UploadFile(s3, SnapshotObject(records, r.Revision))
                 ELSE s3
        /\ wpc' = IF uploaded THEN "cleanup" ELSE "idle"
        /\ wUpTo' = IF uploaded THEN r.Revision ELSE 0
  /\ UNCHANGED <<sideVars, phase, crashes, index, nextRevisionID, txnVars, watchVars, acked>>

\* the rest of createSnapshot: list the chunks the snapshot covers and delete
\* them; a failed list ends the pass, a failed delete skips that chunk
SnapshotCleanup(listOk, deleted) ==
  /\ phase = "serving"
  /\ wpc = "cleanup"
  /\ deleted \subseteq ListChunksForCleanup(s3, wUpTo)
  /\ s3' = IF listOk THEN s3 \ deleted ELSE s3
  /\ wpc' = "idle"
  /\ wUpTo' = 0
  /\ UNCHANGED <<sideVars, phase, crashes, index, nextRevisionID, txnVars, requestCh,
                 lastSnapshotRevision, lastSnapshotTime, cumulativeSize,
                 watchVars, acked>>

(***************************************************************************)
(* Crash and startup (cmd/root.go).                                        *)
(***************************************************************************)
\* everything held in memory is lost
Volatile ==
  /\ nextRevisionID' = 1
  /\ leaderTxnMutex' = NoClient
  /\ pc' = [c \in Clients |-> "idle"]
  /\ req' = [c \in Clients |-> NoRequest]
  /\ inserted' = [c \in Clients |-> NoRecord]
  /\ err' = [c \in Clients |-> ""]
  /\ resp' = [c \in Clients |-> NoResponse]
  /\ requestCh' = <<>>
  /\ lastSnapshotRevision' = 0
  /\ lastSnapshotTime' = 0
  /\ cumulativeSize' = 0
  /\ wpc' = "idle"
  /\ wUpTo' = 0
  /\ watcherOpen' = [w \in Watchers |-> FALSE]
  /\ watches' = [w \in Watchers |-> {}]
  /\ inbox' = [w \in Watchers |-> <<>>]
  /\ watchIDCounter' = 0
  /\ wWriter' = [w \in Watchers |-> FALSE]
  /\ wReaders' = [w \in Watchers |-> {}]
  /\ allReaders' = {}
  /\ inboxOk' = [w \in Watchers |-> FALSE]
  /\ inboxClosed' = [w \in Watchers |-> FALSE]
  /\ sender' = [w \in Watchers |-> "none"]
  /\ stream' = [w \in Watchers |-> At("none")]
  /\ ticker' = [w \in Watchers |-> At("idle")]
  /\ dist' = [c \in Clients |-> NoDistribute]
  /\ sentOnClosed' = FALSE

\* the process dies while serving; the bucket survives, the index file
\* survives (an open transaction is rolled back) or is lost with the disk
Crash(wipe) ==
  /\ phase = "serving"
  /\ crashes < MaxCrashes
  /\ crashes' = crashes + 1
  /\ phase' = "down"
  /\ index' = IF wipe THEN {} ELSE index
  /\ Volatile
  /\ UNCHANGED <<sideVars, s3, acked>>

\* the records Backfill replicates, in order, when nothing fails
BackfillRecords(idx, objs, latestRevision, snap) ==
  LET snapRecords ==
        IF latestRevision = 0 /\ snap.Found
        THEN (CHOOSE o \in objs : o.key = snap.Key).file.records ELSE <<>>
      afterSnap == ReplicateAll(idx, snapRecords).idx
      chunks == ListChunks(objs, LatestRevision(afterSnap))
  IN snapRecords \o [i \in 1..Len(chunks) |-> chunks[i].file.records[1]]

\* startup: LatestRevision, GetLatestSnapshot, InitializeWithSnapshot,
\* Backfill, VerifyIntegrity, then the servers with the revision counter
\* initialised; a failed backfill or integrity check exits the process
Startup ==
  /\ phase = "down"
  /\ LET latestRevision == LatestRevision(index)
         snap == GetLatestSnapshot(s3)
         b == Backfill(index, s3, latestRevision, snap)
         ok == b.err = "" /\ VerifyIntegrity(b.idx)
     IN /\ index' = b.idx
        /\ phase' = IF ok THEN "serving" ELSE "down"
        /\ nextRevisionID' = IF ok THEN LatestRevision(b.idx) + 1 ELSE nextRevisionID
        /\ lastSnapshotRevision' = IF ok /\ snap.Found THEN snap.Revision ELSE 0
        /\ lastSnapshotTime' = IF ok /\ snap.Found THEN Now ELSE 0
  /\ UNCHANGED <<sideVars, crashes, txnVars, s3, requestCh, cumulativeSize, wpc, wUpTo,
                 watchVars, acked>>

\* the process dies during Backfill after replicating n records: each
\* ReplicateRecord is its own index transaction
StartupInterrupted(n) ==
  /\ phase = "down"
  /\ crashes < MaxCrashes
  /\ LET recs == BackfillRecords(index, s3, LatestRevision(index),
                                 GetLatestSnapshot(s3))
     IN /\ n < Len(recs)
        /\ index' = ReplicateAll(index, SubSeq(recs, 1, n)).idx
  /\ crashes' = crashes + 1
  /\ UNCHANGED <<sideVars, phase, nextRevisionID, txnVars, s3, workerVars,
                 watchVars, acked>>

\* one Txn call of client c, step by step
TxnStep(c) ==
  \/ \E r \in Requests, dbOk \in BOOLEAN : TxnBegin(c, r, dbOk)
  \/ \E o \in {"stored", "stored-but-failed", "failed"} : WriteRecord(c, o)
  \/ \E ok \in BOOLEAN : Commit(c, ok)
  \/ LeaderTxnReturn(c)
  \/ TxnFinish(c)

\* the snapshot worker goroutine
WorkerStep ==
  \/ \E ok \in BOOLEAN : ProcessRequest(ok)
  \/ \E ok \in BOOLEAN, d \in SUBSET s3 : SnapshotCleanup(ok, d)

\* the watch streams
WatchStep(w) ==
  \/ OpenWatch(w)
  \/ \E r \in WatchCreateRequests : CreateWatch(w, r)
  \/ \E id \in 1..MaxWatches : CancelWatch(w, id)
  \/ Cleanup(w)

\* a serving leader: concurrent Txn calls and watch streams; snapshot
\* requests queue up in requestCh
Next ==
  \/ \E c \in Clients : TxnStep(c)
  \/ \E w \in Watchers : WatchStep(w)

Spec == Init /\ [][Next]_vars

\* a leader that crashes and restarts: one client, the snapshot worker,
\* crashes and startups
NextRecovery ==
  \/ TxnStep("c1")
  \/ WorkerStep
  \/ \E wipe \in BOOLEAN : Crash(wipe)
  \/ Startup
  \/ \E n \in 1..MaxRevision : StartupInterrupted(n)

SpecRecovery == Init /\ [][NextRecovery]_vars

(***************************************************************************)
(* The watch service goroutine by goroutine (clientapi.Watch, Distribute,  *)
(* ReportProgressOnInterval, Cleanup), with the two RWMutexes and the      *)
(* unbuffered inbox channel.  A send on inboxCh is a rendezvous with the   *)
(* goroutine that drains it; a pending writer does not hold back new       *)
(* readers here, which allows more interleavings than sync.RWMutex does.   *)
(***************************************************************************)
MaxInbox == 1

Goroutines == Clients \cup {"ticker", "stream"}

\* a write lock taken without waiting for the readers
WLockNoWait(w) == ~wWriter[w]

\* watcher.Lock() can be taken: no writer and no reader
WLock(w) == ~wWriter[w] /\ wReaders[w] = {}

\* watcher.RLock() can be taken: no writer
WRLock(w) == ~wWriter[w]

\* the progress messages of one report: one broadcast when every watch has
\* progress notifications enabled, else one message per watch that has
RECURSIVE ProgressFor(_, _)
ProgressFor(ws, revision) ==
  IF ws = {} THEN <<>>
  ELSE LET x == CHOOSE y \in ws : \A z \in ws : y.id <= z.id
       IN (IF x.progressNotify
           THEN <<[WatchId |-> x.id, Header |-> [Revision |-> revision]]>>
           ELSE <<>>)
          \o ProgressFor(ws \ {x}, revision)

\* a report that never broadcasts
ProgressPerWatch(ws, revision) == ProgressFor(ws, revision)

ProgressMessages(ws, revision) ==
  IF \A x \in ws : x.progressNotify
  THEN <<[WatchId |-> -1, Header |-> [Revision |-> revision]]>>
  ELSE ProgressFor(ws, revision)

\* clientapi.Watch up to its receive loop: a new watcher with an open inbox,
\* added to allWatchers under its write lock, and the goroutine draining the
\* inbox started
WatchStart(w) ==
  /\ phase = "serving"
  /\ stream[w].at = "none"
  /\ ~watcherOpen[w]
  /\ ticker[w].at = "idle"
  /\ allReaders = {}
  /\ watcherOpen' = [watcherOpen EXCEPT ![w] = TRUE]
  /\ watches' = [watches EXCEPT ![w] = {}]
  /\ inbox' = [inbox EXCEPT ![w] = <<>>]
  /\ inboxOk' = [inboxOk EXCEPT ![w] = TRUE]
  /\ inboxClosed' = [inboxClosed EXCEPT ![w] = FALSE]
  /\ sender' = [sender EXCEPT ![w] = "receiving"]
  /\ stream' = [stream EXCEPT ![w] = At("loop")]
  /\ UNCHANGED <<sideVars, phase, crashes, index, nextRevisionID, txnVars, s3,
                 workerVars, watchIDCounter, acked, wWriter, wReaders,
                 allReaders, ticker, dist, sentOnClosed>>

\* a create request received in the loop; registering the watch takes the
\* watcher's write lock
StreamCreate(w, r) ==
  /\ stream[w].at = "loop"
  /\ \/ WLock(w)
     \/ /\ r.StartRevision # 0
        /\ ~GetRevision(index, r.StartRevision, r.Compacted).found
        /\ r.StartRevision <= LatestRevision(index)
  /\ CreateWatch(w, r)

\* a cancel request received in the loop
StreamCancel(w, watchID) ==
  /\ stream[w].at = "loop"
  /\ WLock(w)
  /\ CancelWatch(w, watchID)

\* one send on w.inboxCh by goroutine g: a panic when the channel is closed,
\* else it waits for the draining goroutine, which takes the message and
\* calls client.Send: the send succeeds, fails (the goroutine returns) or
\* never completes because the client has stopped reading
InboxSend(w, msg, out) ==
  /\ inboxClosed[w] \/ sender[w] = "receiving"
  /\ sentOnClosed' = (sentOnClosed \/ inboxClosed[w])
  /\ inbox' = IF inboxClosed[w] THEN inbox
              ELSE [inbox EXCEPT ![w] = Append(@, msg)]
  /\ sender' = IF inboxClosed[w] THEN sender
               ELSE [sender EXCEPT ![w] = CASE out = "sent" -> "receiving"
                                            [] out = "failed" -> "exited"
                                            [] OTHER -> "stalled"]

\* ReportProgressOnInterval by the poll goroutine ("ticker") or, for a
\* progress request, by the Watch call itself ("stream"): it starts by
\* reading the latest revision of the index, before any lock
ProgressRead(w, g) ==
  /\ phase = "serving"
  /\ sender[w] # "none"
  /\ IF g = "stream" THEN stream[w].at = "loop" ELSE ticker[w].at = "idle"
  /\ Len(inbox[w]) < MaxInbox
  /\ LET read == [at |-> "read", msgs |-> <<>>, revision |-> LatestRevision(index)]
     IN IF g = "stream"
        THEN /\ stream' = [stream EXCEPT ![w] = read]
             /\ UNCHANGED ticker
        ELSE /\ ticker' = [ticker EXCEPT ![w] = read]
             /\ UNCHANGED stream
  /\ UNCHANGED <<sideVars, phase, crashes, index, nextRevisionID, txnVars, s3,
                 workerVars, watcherOpen, watches, inbox, watchIDCounter,
                 acked, wWriter, wReaders, allReaders, inboxOk, inboxClosed,
                 sender, dist, sentOnClosed>>

\* then the read lock; it returns if the inbox is not ok, else the messages
\* for the revision it read are sent under the lock
ProgressBegin(w, g) ==
  /\ phase = "serving"
  /\ (IF g = "stream" THEN stream[w].at ELSE ticker[w].at) = "read"
  /\ WRLock(w)
  /\ LET revision == IF g = "stream" THEN stream[w].revision
                     ELSE ticker[w].revision
         next == IF inboxOk[w]
                 THEN [at |-> "progress",
                       msgs |-> ProgressMessages(watches[w], revision)]
                 ELSE IF g = "stream" THEN At("loop") ELSE At("idle")
     IN /\ wReaders' = [wReaders EXCEPT ![w] =
                          IF inboxOk[w] THEN @ \cup {g} ELSE @]
        /\ IF g = "stream"
           THEN /\ stream' = [stream EXCEPT ![w] = next]
                /\ UNCHANGED ticker
           ELSE /\ ticker' = [ticker EXCEPT ![w] = next]
                /\ UNCHANGED stream
  /\ UNCHANGED <<sideVars, phase, crashes, index, nextRevisionID, txnVars, s3,
                 workerVars, watcherOpen, watches, inbox, watchIDCounter,
                 acked, wWriter, allReaders, inboxOk, inboxClosed, sender,
                 dist, sentOnClosed>>

\* the messages a running progress report has still to send
ProgressPending(w, g) ==
  IF g = "stream" THEN stream[w].msgs ELSE ticker[w].msgs

ProgressSend(w, g, out) ==
  /\ phase = "serving"
  /\ g \in wReaders[w]
  /\ ProgressPending(w, g) # <<>>
  /\ InboxSend(w, Head(ProgressPending(w, g)), out)
  /\ IF g = "stream"
     THEN /\ stream' = [stream EXCEPT ![w].msgs = Tail(@)]
          /\ UNCHANGED ticker
     ELSE /\ ticker' = [ticker EXCEPT ![w].msgs = Tail(@)]
          /\ UNCHANGED stream
  /\ UNCHANGED <<sideVars, phase, crashes, index, nextRevisionID, txnVars, s3,
                 workerVars, watcherOpen, watches, watchIDCounter, acked,
                 wWriter, wReaders, allReaders, inboxOk, inboxClosed, dist>>

\* the report returns: the deferred RUnlock
ProgressEnd(w, g) ==
  /\ phase = "serving"
  /\ g \in wReaders[w]
  /\ (IF g = "stream" THEN stream[w].at ELSE ticker[w].at) = "progress"
  /\ ProgressPending(w, g) = <<>>
  /\ wReaders' = [wReaders EXCEPT ![w] = @ \ {g}]
  /\ IF g = "stream"
     THEN /\ stream' = [stream EXCEPT ![w] = At("loop")]
          /\ UNCHANGED ticker
     ELSE /\ ticker' = [ticker EXCEPT ![w] = At("idle")]
          /\ UNCHANGED stream
  /\ UNCHANGED <<sideVars, phase, crashes, index, nextRevisionID, txnVars, s3,
                 workerVars, watcherOpen, watches, inbox, watchIDCounter,
                 acked, wWriter, allReaders, inboxOk, inboxClosed, sender,
                 dist, sentOnClosed>>

\* Recv returns an error, the loop ends and Cleanup starts: the watcher's
\* write lock (kept until Cleanup returns), inboxOk = false, close(inboxCh),
\* the watches dropped.  The draining goroutine sees the close and returns.
CleanupLock(w) ==
  /\ phase = "serving"
  /\ stream[w].at = "loop"
  /\ WLock(w)
  /\ wWriter' = [wWriter EXCEPT ![w] = TRUE]
  /\ inboxOk' = [inboxOk EXCEPT ![w] = FALSE]
  /\ inboxClosed' = [inboxClosed EXCEPT ![w] = TRUE]
  /\ sender' = [sender EXCEPT ![w] = IF @ = "receiving" THEN "closed" ELSE @]
  /\ watches' = [watches EXCEPT ![w] = {}]
  /\ stream' = [stream EXCEPT ![w] = At("cleanup")]
  /\ UNCHANGED <<sideVars, phase, crashes, index, nextRevisionID, txnVars, s3,
                 workerVars, watcherOpen, inbox, watchIDCounter, acked,
                 wReaders, allReaders, ticker, dist, sentOnClosed>>

\* the rest of Cleanup: allWatchers.Lock(), delete, Unlock, and the deferred
\* w.Unlock(); Watch returns
CleanupRemove(w) ==
  /\ phase = "serving"
  /\ stream[w].at = "cleanup"
  /\ allReaders = {}
  /\ watcherOpen' = [watcherOpen EXCEPT ![w] = FALSE]
  /\ wWriter' = [wWriter EXCEPT ![w] = FALSE]
  /\ stream' = [stream EXCEPT ![w] = At("none")]
  /\ UNCHANGED <<sideVars, phase, crashes, index, nextRevisionID, txnVars, s3,
                 workerVars, watches, inbox, watchIDCounter, acked, wReaders,
                 allReaders, inboxOk, inboxClosed, sender, ticker, dist,
                 sentOnClosed>>

\* clientapi.Txn after LeaderTxn returned a record: Distribute takes
\* allWatchers.RLock() and starts its loop over allWatchers.servers
DistributeRLock(c) ==
  /\ phase = "serving"
  /\ pc[c] = "returned"
  /\ dist[c].at = "none"
  /\ allReaders' = allReaders \cup {c}
  /\ dist' = [dist EXCEPT ![c] =
                [at |-> "loop", todo |-> {w \in Watchers : watcherOpen[w]},
                 w |-> "none", msgs |-> <<>>]]
  /\ UNCHANGED <<sideVars, phase, crashes, index, nextRevisionID, txnVars, s3,
                 workerVars, watcherOpen, watches, inbox, watchIDCounter,
                 acked, wWriter, wReaders, inboxOk, inboxClosed, sender,
                 stream, ticker, sentOnClosed>>

\* the loop reaches watcher w: w.RLock() (released when Distribute returns)
\* and the messages for its matching watches
DistributeWatcher(c, w) ==
  /\ phase = "serving"
  /\ dist[c].at = "loop"
  /\ dist[c].msgs = <<>>
  /\ w \in dist[c].todo
  /\ WRLock(w)
  /\ wReaders' = [wReaders EXCEPT ![w] = @ \cup {c}]
  /\ LET prevRecord ==
           IF ~inserted[c].created /\ inserted[c].prev_revision > 0
           THEN FindRecordByRev(index, inserted[c].prev_revision)
           ELSE NoRecord
     IN dist' = [dist EXCEPT ![c] =
                   [at |-> "loop", todo |-> dist[c].todo \ {w}, w |-> w,
                    msgs |-> EventsFor(watches[w], inserted[c], prevRecord)]]
  /\ UNCHANGED <<sideVars, phase, crashes, index, nextRevisionID, txnVars, s3,
                 workerVars, watcherOpen, watches, inbox, watchIDCounter,
                 acked, wWriter, allReaders, inboxOk, inboxClosed, sender,
                 stream, ticker, sentOnClosed>>

\* w.inboxCh <- msg for the next matching watch
DistributeSend(c, out) ==
  /\ phase = "serving"
  /\ dist[c].at = "loop"
  /\ dist[c].msgs # <<>>
  /\ InboxSend(dist[c].w, Head(dist[c].msgs), out)
  /\ dist' = [dist EXCEPT ![c].msgs = Tail(@)]
  /\ UNCHANGED <<sideVars, phase, crashes, index, nextRevisionID, txnVars, s3,
                 workerVars, watcherOpen, watches, watchIDCounter, acked,
                 wWriter, wReaders, allReaders, inboxOk, inboxClosed, stream,
                 ticker>>

\* Distribute returns (every deferred RUnlock runs) and Txn returns the
\* response, Succeeded = true, to the client
TxnReturn(c) ==
  /\ phase = "serving"
  /\ pc[c] = "returned"
  /\ dist[c].at = "loop"
  /\ dist[c].msgs = <<>>
  /\ dist[c].todo = {}
  /\ wReaders' = [w \in Watchers |-> wReaders[w] \ {c}]
  /\ allReaders' = allReaders \ {c}
  /\ dist' = [dist EXCEPT ![c] = NoDistribute]
  /\ pc' = [pc EXCEPT ![c] = "idle"]
  /\ acked' = acked \cup {inserted[c]}
  /\ inserted' = [inserted EXCEPT ![c] = NoRecord]
  /\ UNCHANGED <<sideVars, phase, crashes, index, nextRevisionID, leaderTxnMutex, req,
                 err, resp, s3, workerVars, watcherOpen, watches, inbox,
                 watchIDCounter, wWriter, inboxOk, inboxClosed, sender,
                 stream, ticker, sentOnClosed>>

\* the Txn calls of the watch specification: creates and updates of one key,
\* the index and the bucket answering
WatchTxnRequests ==
  {r \in Requests : /\ r.key = KeyA
                     /\ r.op = "put"
                     /\ r.value = "v1"
                     /\ r.failure = (r.mod > 0)}

\* its watch create requests: every event of the key, with and without
\* progress notifications
StreamCreateRequests ==
  {r \in WatchCreateRequests : r.StartRevision = 0 /\ ~r.PrevKv /\ ~r.NoPut}

SendOutcomes == {"sent", "failed", "stalled"}

TxnCall(c) ==
  \/ \E r \in WatchTxnRequests : TxnBegin(c, r, TRUE)
  \/ WriteRecord(c, "stored")
  \/ Commit(c, TRUE)
  \/ LeaderTxnReturn(c)

DistributeCall(c) ==
  \/ DistributeRLock(c)
  \/ \E w \in Watchers : DistributeWatcher(c, w)
  \/ \E out \in SendOutcomes : DistributeSend(c, out)
  \/ TxnReturn(c)

ProgressCall(w, g) ==
  \/ ProgressRead(w, g)
  \/ ProgressBegin(w, g)
  \/ \E out \in SendOutcomes : ProgressSend(w, g, out)
  \/ ProgressEnd(w, g)

WatchCall(w) ==
  \/ WatchStart(w)
  \/ \E r \in StreamCreateRequests : StreamCreate(w, r)
  \/ \E id \in 1..MaxWatches : StreamCancel(w, id)
  \/ CleanupLock(w)
  \/ CleanupRemove(w)

NextWatch ==
  \/ \E c \in Clients : TxnCall(c)
  \/ \E c \in Clients : DistributeCall(c)
  \/ \E w \in Watchers, g \in {"ticker", "stream"} : ProgressCall(w, g)
  \/ \E w \in Watchers : WatchCall(w)

SpecWatch == Init /\ [][NextWatch]_vars

\* the scheduler runs every goroutine that can take a step: a Txn call that
\* has begun goes on through LeaderTxn and Distribute, a progress report
\* that has begun goes on, a Cleanup that has begun goes on; and once the
\* draining goroutine has stopped on a failed or stalled client.Send the
\* stream is broken, so Recv returns its error and Cleanup starts.  New Txn
\* calls, new streams, watch requests, progress reports and a healthy
\* stream's end are the clients' choice.
FairWatch ==
  /\ \A c \in Clients :
       /\ WF_vars(WriteRecord(c, "stored"))
       /\ WF_vars(Commit(c, TRUE))
       /\ WF_vars(LeaderTxnReturn(c))
       /\ WF_vars(DistributeCall(c))
  /\ \A w \in Watchers :
       /\ \A g \in {"ticker", "stream"} :
            /\ WF_vars(ProgressBegin(w, g))
            /\ WF_vars(\E out \in SendOutcomes : ProgressSend(w, g, out))
            /\ WF_vars(ProgressEnd(w, g))
       /\ WF_vars(sender[w] \in {"exited", "stalled"} /\ CleanupLock(w))
       /\ WF_vars(CleanupRemove(w))

SpecWatchFair == SpecWatch /\ FairWatch

(***************************************************************************)
(* The index under a sequence of Txn calls on two keys: one client, whose  *)
(* calls leaderTxnMutex would serialise anyway.                            *)
(***************************************************************************)
IndexKeys == {KeyA, KeyB}

IndexRequests ==
  Requests
  \cup [key : {KeyB}, mod : 0..MaxRevision, op : {"put"}, successKey : {KeyB},
        value : {"v1"}, lease : {0}, prevKv : {FALSE}, failure : {TRUE}]
  \cup [key : {KeyB}, mod : 1..MaxRevision, op : {"delete"}, successKey : {KeyB},
        value : {NoValue}, lease : {0}, prevKv : {FALSE}, failure : {TRUE}]

NextIndex ==
  \/ \E r \in IndexRequests, dbOk \in BOOLEAN : TxnBegin("c1", r, dbOk)
  \/ \E o \in {"stored", "stored-but-failed", "failed"} : WriteRecord("c1", o)
  \/ \E ok \in BOOLEAN : Commit("c1", ok)
  \/ LeaderTxnReturn("c1")
  \/ TxnFinish("c1")

SpecIndex == Init /\ [][NextIndex]_vars

(***************************************************************************)
(* ParseTxnRequest on its own: every request shape is parsed once, as      *)
(* LeaderTxn does before it assigns a revision.                            *)
(***************************************************************************)
InitParse ==
  /\ phase = "serving"
  /\ crashes = 0
  /\ index = {}
  /\ nextRevisionID = 1
  /\ leaderTxnMutex = NoClient
  /\ pc = [c \in Clients |-> "idle"]
  /\ \E r \in TxnRequests :
       req = [c \in Clients |-> IF c = "c1" THEN r ELSE NoRequest]
  /\ inserted = [c \in Clients |-> NoRecord]
  /\ err = [c \in Clients |-> ""]
  /\ resp = [c \in Clients |-> NoResponse]
  /\ s3 = {}
  /\ requestCh = <<>>
  /\ lastSnapshotRevision = 0
  /\ lastSnapshotTime = 0
  /\ cumulativeSize = 0
  /\ wpc = "idle"
  /\ wUpTo = 0
  /\ watcherOpen = [w \in Watchers |-> FALSE]
  /\ watches = [w \in Watchers |-> {}]
  /\ inbox = [w \in Watchers |-> <<>>]
  /\ watchIDCounter = 0
  /\ acked = {}
  /\ InitWatchers
  /\ InitPure

\* record, err = ParseTxnRequest(r): the draft record is kept in inserted
ParseStep(c) ==
  /\ pc[c] = "idle"
  /\ req[c] # NoRequest
  /\ LET p == ParseTxnRequest(req[c])
     IN /\ err' = [err EXCEPT ![c] = p.err]
        /\ inserted' = [inserted EXCEPT ![c] = p.record]
  /\ pc' = [pc EXCEPT ![c] = "parsed"]
  /\ UNCHANGED <<sideVars, phase, crashes, index, nextRevisionID, leaderTxnMutex, req,
                 resp, s3, workerVars, watchVars, acked>>

NextParse == \E c \in Clients : ParseStep(c)

SpecParse == InitParse /\ [][NextParse]_vars

(***************************************************************************)
(* C1: in synchronous S3 mode every record whose Txn was answered          *)
(* Succeeded = true is in the index again, with the same fields, after a   *)
(* crash and a restart that begins with an empty local index: the startup  *)
(* backfill restores it from S3.                                           *)
(***************************************************************************)
C1_AckedSurvivesRestart ==
  [][(phase = "down" /\ index = {} /\ phase' = "serving")
       => acked \subseteq index']_vars

(***************************************************************************)
(* C2: at every state, every revision R in the local index has its chunk   *)
(* object chunks/{R mod 10000}/{R} in S3 or is covered by an uploaded      *)
(* snapshot object with revision >= R; and a call that is about to commit  *)
(* revision R has already put chunk R.                                     *)
(***************************************************************************)
HasChunk(rev) ==
  \E o \in s3 : /\ o.key.dir = "chunks"
                /\ o.key.partition = rev % ChunkPartitions
                /\ o.key.revision = rev

HasSnapshotFrom(rev) ==
  \E o \in s3 : o.key.dir = "snapshots" /\ o.key.revision >= rev

C2_IndexedRevisionInS3 ==
  /\ \A row \in index : HasChunk(row.revision) \/ HasSnapshotFrom(row.revision)
  /\ \A c \in Clients : pc[c] = "commit" => HasChunk(inserted[c].revision)

\* a snapshot pass deleted the chunk of an indexed revision, while a later
\* revision is indexed with its chunk
C2_Witness ==
  /\ \E row \in index : ~HasChunk(row.revision) /\ HasSnapshotFrom(row.revision)
  /\ \E row \in index : HasChunk(row.revision) /\ ~HasSnapshotFrom(row.revision)

(***************************************************************************)
(* C3: while the leader serves, the index has dense revisions              *)
(* (COUNT = MAX, the revisions are 1..MAX) whatever Txn calls failed, and  *)
(* every commit adds exactly one row whose revision is the previous        *)
(* latest revision plus one.                                               *)
(***************************************************************************)
Dense(idx) ==
  /\ Cardinality(idx) = LatestRevision(idx)
  /\ Revisions(idx) = 1..LatestRevision(idx)

C3_DenseRevisions ==
  [][/\ phase' = "serving" => Dense(index')
     /\ (phase = "serving" /\ phase' = "serving" /\ index' # index)
          => \E row \in index' :
               /\ index' = index \cup {row}
               /\ row \notin index
               /\ row.revision = LatestRevision(index) + 1]_vars

\* after a restart and two commits, a commit has just failed
C3_Witness ==
  /\ phase = "serving"
  /\ crashes > 0
  /\ Cardinality(index) >= 2
  /\ \E c \in Clients : pc[c] = "built" /\ err[c] = "failed to commit transaction"

(***************************************************************************)
(* C4: under any interleaving of concurrent Txn calls at most one call is  *)
(* between reading nextRevisionID and the end of its commit or rollback,   *)
(* and it holds leaderTxnMutex; no commit is assigned a revision that is   *)
(* already in the index, and commits complete in increasing revision       *)
(* order.                                                                  *)
(***************************************************************************)
InSpan(c) == pc[c] \in {"upload", "commit", "built"}

C4_MutexSerialisesCommits ==
  /\ [](/\ Cardinality({c \in Clients : InSpan(c)}) <= 1
        /\ \A c \in Clients : InSpan(c) => leaderTxnMutex = c)
  /\ [][\A c \in Clients :
          (pc[c] = "commit" /\ index' # index)
            => /\ index' = index \cup {inserted[c]}
               /\ \A row \in index : row.revision < inserted[c].revision]_vars

\* one call is about to commit while the previous call, already committed,
\* has not yet distributed its record
C4_Witness ==
  \E c, d \in Clients :
    /\ pc[c] = "commit"
    /\ pc[d] = "returned"
    /\ inserted[d] \in index
    /\ inserted[c].revision = inserted[d].revision + 1

LiveKvs(idx, key) ==
  LET rows == {r \in idx : r.key = key /\ ~r.deleted
                           /\ \A q \in idx : q.key = key => q.revision <= r.revision}
  IN IF rows = {} THEN <<>>
     ELSE LET r == CHOOSE x \in rows : TRUE
          IN <<[Key |-> r.key, CreateRevision |-> r.create_revision,
                ModRevision |-> r.revision, Value |-> r.value,
                Version |-> r.version, Lease |-> r.lease]>>

\* the call of c, started in this step, failed the revision compare and its
\* request has a failure op
CompareFailedStep(c) ==
  /\ pc[c] = "idle" /\ pc'[c] # "idle"
  /\ req'[c].failure
  /\ err'[c] # "failed to begin transaction"
  /\ LET p == ParseTxnRequest(req'[c])
     IN /\ p.err = ""
        /\ InsertRecord(index, [p.record EXCEPT !.revision = nextRevisionID]).err
             = "ErrCompareRevisionFailed"

C6_CompareFailureChangesNothing ==
  [][\A c \in Clients :
       CompareFailedStep(c)
         => /\ pc'[c] = "built"
            /\ err'[c] = ""
            /\ ~resp'[c].Succeeded
            /\ Len(resp'[c].Responses) = 1
            /\ resp'[c].Responses[1].op = "ResponseRange"
            /\ resp'[c].Responses[1].Range.Kvs = LiveKvs(index, req'[c].key)
            /\ inserted'[c] = NoRecord
            /\ index' = index
            /\ nextRevisionID' = nextRevisionID
            /\ s3' = s3
            /\ inbox' = inbox]_vars

\* a failed compare was answered with the live record of a key that had
\* been updated, while the other call waits to distribute
C6_Witness ==
  \E c, d \in Clients :
    /\ pc[c] = "built" /\ err[c] = "" /\ ~resp[c].Succeeded
    /\ Len(resp[c].Responses[1].Range.Kvs) = 1
    /\ resp[c].Responses[1].Range.Kvs[1].Version = 2
    /\ pc[d] = "returned"

(***************************************************************************)
(* C7: for every watcher the events are pushed to its inbox in commit      *)
(* order: an event for revision R+1 is never pushed before the event for   *)
(* revision R.                                                             *)
(***************************************************************************)
C7_InboxInCommitOrder ==
  \A w \in Watchers :
    \A i, j \in 1..Len(inbox[w]) :
      i < j => inbox[w][i].Header.Revision < inbox[w][j].Header.Revision

(***************************************************************************)
(* C8: a watch with start_revision = 0 and no filters gets exactly one     *)
(* event for every record on its key that is committed after the watch     *)
(* was registered, once the committing call has distributed it (none       *)
(* lost, none duplicated), and every event it gets is for a committed      *)
(* record: a Txn that did not commit produces no event.                    *)
(***************************************************************************)
\* positions in the inbox of w of the events of watch x for revision rev
EventsOf(w, x, rev) ==
  {i \in 1..Len(inbox[w]) : /\ inbox[w][i].WatchId = x.id
                            /\ inbox[w][i].Kv.ModRevision = rev}

\* the call that committed row has not yet distributed it
Undistributed(row) ==
  \E c \in Clients : pc[c] \in {"built", "returned"} /\ inserted[c] = row

KeyConflict(c) ==
  /\ pc[c] = "built"
  /\ inserted[c] = NoRecord
  /\ err[c] # "failed to begin transaction"
  /\ Len(req[c].key) > 0
  /\ \/ req[c].op = "put" /\ req[c].mod = 0
        /\ LiveKvs(index, req[c].key) # <<>>
     \/ req[c].op = "delete" /\ req[c].mod > 0 /\ req[c].failure
        /\ LiveKvs(index, req[c].key) = <<>>

C9_KeyConflictAnsweredWithRange ==
  \A c \in Clients :
    KeyConflict(c)
      => /\ ~ClientResponse(c).Succeeded
         /\ Len(ClientResponse(c).Responses) = 1
         /\ ClientResponse(c).Responses[1].op = "ResponseRange"
         /\ ClientResponse(c).Responses[1].Range.Kvs = LiveKvs(index, req[c].key)

(***************************************************************************)
(* C10: every TxnResponse the Txn RPC returns carries Header.Revision      *)
(* equal to the index's MAX(revision) at the end of the call, also after   *)
(* a compare failure whose failure range matches no live key.              *)
(***************************************************************************)
C10_HeaderIsLatestRevision ==
  \A c \in Clients :
    pc[c] = "built" => ClientResponse(c).Header.Revision = LatestRevision(index)

(***************************************************************************)
(* C11: the Txn RPC surfaces failures as errors: when LeaderTxn fails      *)
(* because ParseTxnRequest rejected the request, because the index failed  *)
(* with an error other than the three sentinels, or because the S3 upload  *)
(* failed, the client gets an error status and not a TxnResponse.          *)
(***************************************************************************)
Sentinels ==
  {"ErrCompareRevisionFailed", "ErrCreateKeyExists", "ErrDeleteKeyNotFound"}

C11_FailuresSurfaceAsErrors ==
  \A c \in Clients :
    (pc[c] = "built" /\ err[c] # "" /\ err[c] \notin Sentinels)
      => TxnRpc(c).err # "nil"

(***************************************************************************)
(* C12: for every TxnRequest with one MOD/EQUAL compare, one success op    *)
(* and at most one failure range, all on the same key, ParseTxnRequest     *)
(* classifies by the compare's mod_revision and the ops: mod = 0 with a    *)
(* put is a create (created, prev_revision 0); mod > 0 with a put and a    *)
(* failure range is an update (prev_revision = mod); mod > 0 with a        *)
(* delete and a failure range is a delete (deleted, prev_revision = mod);  *)
(* every other combination is ErrUnsupported; key, value and lease are     *)
(* those of the success op.                                                *)
(***************************************************************************)
\* the parse of request r gave a record with these flags and prev_revision,
\* carrying the success op's key, value and lease
ParsedRecord(c, created, deleted, prev) ==
  /\ err[c] = ""
  /\ inserted[c] # NoRecord
  /\ inserted[c].created = created
  /\ inserted[c].deleted = deleted
  /\ inserted[c].prev_revision = prev
  /\ inserted[c].key = req[c].successKey
  /\ inserted[c].value = req[c].value
  /\ inserted[c].lease = req[c].lease

\* the classification table of the claim
Classified(c) ==
  LET r == req[c]
  IN IF r.mod = 0 /\ r.op = "put" THEN ParsedRecord(c, TRUE, FALSE, 0)
     ELSE IF r.mod > 0 /\ r.op = "put" /\ r.failure
       THEN ParsedRecord(c, FALSE, FALSE, r.mod)
     ELSE IF r.mod > 0 /\ r.op = "delete" /\ r.failure
       THEN ParsedRecord(c, FALSE, TRUE, r.mod)
     ELSE err[c] = "ErrUnsupported" /\ inserted[c] = NoRecord

C13_OneOperationResult ==
  \A c \in Clients :
    (pc[c] = "built" /\ err[c] = "")
      => /\ Len(resp[c].Responses) = 1
         /\ IF inserted[c] = NoRecord
              THEN /\ ~resp[c].Succeeded
                   /\ resp[c].Responses[1].op = "ResponseRange"
                   /\ resp[c].Responses[1].Range = Range(index, req[c].key)
                   /\ resp[c].Header.Revision
                        = resp[c].Responses[1].Range.Header.Revision
            ELSE IF inserted[c].deleted
              THEN /\ resp[c].Succeeded
                   /\ resp[c].Responses[1].op = "ResponseDeleteRange"
                   /\ resp[c].Responses[1].Deleted = 1
                   /\ resp[c].Header.Revision = inserted[c].revision
                   /\ resp[c].Responses[1].Header.Revision = inserted[c].revision
            ELSE /\ resp[c].Succeeded
                 /\ resp[c].Responses[1].op = "ResponsePut"
                 /\ resp[c].Header.Revision = inserted[c].revision
                 /\ resp[c].Responses[1].Header.Revision = inserted[c].revision

\* a delete committed at the third revision has its response, while the
\* other call holds a committed update it has not distributed yet
C13_Witness ==
  \E c, d \in Clients :
    /\ pc[c] = "built" /\ err[c] = ""
    /\ inserted[c] # NoRecord
    /\ inserted[c].deleted /\ inserted[c].revision = 3
    /\ resp[c].Responses[1].Deleted = 1
    /\ pc[d] = "returned" /\ ~inserted[d].created

(***************************************************************************)
(* C14: for every key the records ordered by revision form generations:    *)
(* a generation begins with a created record, continues with updates and   *)
(* ends with at most one deleted record; no update or delete exists        *)
(* without a live record before it, and no create follows a live record.   *)
(***************************************************************************)
\* the record of row's key that precedes row, or NoRecord
Preceding(idx, row) ==
  LET rows == {q \in idx : q.key = row.key /\ q.revision < row.revision}
  IN IF rows = {} THEN NoRecord
     ELSE CHOOSE q \in rows : \A x \in rows : x.revision <= q.revision

IsLive(row) == row # NoRecord /\ ~row.deleted

C14_Generations ==
  \A row \in index :
    /\ ~(row.created /\ row.deleted)
    /\ IF row.created THEN ~IsLive(Preceding(index, row))
       ELSE IsLive(Preceding(index, row))

\* key b was created, deleted and created again
C14_Witness ==
  \E r1, r2, r3 \in index :
    /\ r1.key = KeyB /\ r2.key = KeyB /\ r3.key = KeyB
    /\ r1.created /\ r2.deleted /\ r3.created
    /\ r1.revision < r2.revision /\ r2.revision < r3.revision

(***************************************************************************)
(* C15: for every key and any two consecutive records of the key with      *)
(* revisions r1 < r2, where the record at r2 is not a create, the record   *)
(* at r2 has prev_revision = r1.                                           *)
(***************************************************************************)
C15_PrevRevisionChain ==
  \A row \in index :
    (~row.created /\ Preceding(index, row) # NoRecord)
      => row.prev_revision = Preceding(index, row).revision

\* an update of a key whose previous record is two revisions back, with a
\* record of the other key in between
C15_Witness ==
  \E r1, r2, r3 \in index :
    /\ r1.key = r3.key /\ r2.key # r1.key
    /\ r1.revision < r2.revision /\ r2.revision < r3.revision
    /\ ~r3.created /\ ~r3.deleted
    /\ r3.prev_revision = r1.revision

(***************************************************************************)
(* C16: every record's create_revision is the revision of the create that  *)
(* started its generation: a create has create_revision = its own          *)
(* revision (also when it re-creates a deleted key), and every update and  *)
(* delete copies the create_revision of the live record it replaces.       *)
(***************************************************************************)
C16_CreateRevisionOfGeneration ==
  \A row \in index :
    IF row.created THEN row.create_revision = row.revision
    ELSE /\ Preceding(index, row) # NoRecord
         /\ row.create_revision = Preceding(index, row).create_revision

\* a key created at revision 2 was deleted at revision 3, and the delete
\* carries create_revision 2
C16_Witness ==
  \E r2, r3 \in index :
    /\ r2.key = r3.key
    /\ r2.created /\ r2.revision = 2
    /\ r3.deleted /\ r3.revision = 3
    /\ r3.create_revision = 2

(***************************************************************************)
(* C17: every committed create has version 1 (also a create that follows   *)
(* a delete of the same key), every committed update has the version of    *)
(* the live record it replaces plus one, and every committed delete has    *)
(* version 0.                                                              *)
(***************************************************************************)
C17_Versions ==
  \A row \in index :
    IF row.created THEN row.version = 1
    ELSE IF row.deleted THEN row.version = 0
    ELSE /\ Preceding(index, row) # NoRecord
         /\ row.version = Preceding(index, row).version + 1

\* a key at version 2 was deleted
C17_Witness ==
  \E r \in index :
    /\ r.deleted /\ r.version = 0
    /\ Preceding(index, r) # NoRecord
    /\ Preceding(index, r).version = 2

(***************************************************************************)
(* C20: backfill into an empty index from a snapshot of revisions 1..U     *)
(* plus chunks U+1..N.                                                     *)
(***************************************************************************)
\* the records held by the files of a set of objects
FileRecords(objs) ==
  UNION {{o.file.records[i] : i \in 1..Len(o.file.records)} : o \in objs}

LatestSnapshotObjects(objs) ==
  {o \in objs : o.key = GetLatestSnapshot(objs).Key}

ChunkObjectsAfter(objs, U) ==
  {o \in objs : o.key.dir = "chunks" /\ o.key.revision > U}

\* the bucket holds a latest snapshot of revisions 1..U and exactly one
\* chunk, of one record, for each revision U+1..N; chunks with revision <= U
\* may be left over
SnapshotPlusChunks(objs, U, N) ==
  /\ GetLatestSnapshot(objs).Found
  /\ GetLatestSnapshot(objs).Revision = U
  /\ \A o \in LatestSnapshotObjects(objs) :
       /\ o.file.kind = "SNAPSHOT"
       /\ o.file.count = U
       /\ Len(o.file.records) = U
       /\ \A i \in 1..U : o.file.records[i].revision = i
  /\ \A o \in ChunkObjectsAfter(objs, U) :
       /\ o.key.revision <= N
       /\ o.file.kind = "CHUNK"
       /\ o.file.count = 1
       /\ Len(o.file.records) = 1
       /\ o.file.records[1].revision = o.key.revision
  /\ \A rev \in (U + 1)..N :
       Cardinality({o \in ChunkObjectsAfter(objs, U) : o.key.revision = rev}) = 1

\* C20: a startup that begins with an empty index and a bucket holding a
\* snapshot of revisions 1..U plus chunks for U+1..N (and possibly leftover
\* chunks with revision <= U) ends serving with LatestRevision = N, a passing
\* integrity check and an index holding exactly the snapshot's records and
\* the records of the chunks above U, that is revisions 1..N.
C20_BackfillSnapshotThenChunks ==
  [][\A U \in 1..MaxRevision, N \in 1..MaxRevision :
       (/\ phase = "down"
        /\ index = {}
        /\ U <= N
        /\ SnapshotPlusChunks(s3, U, N)
        /\ crashes' = crashes)
       => /\ phase' = "serving"
          /\ LatestRevision(index') = N
          /\ VerifyIntegrity(index')
          /\ Revisions(index') = 1..N
          /\ index' = FileRecords(LatestSnapshotObjects(s3))
                        \cup FileRecords(ChunkObjectsAfter(s3, U))]_vars

\* a restarted leader that has done nothing since its startup (no call in
\* progress, the snapshot worker has counted no record), serving the index it
\* backfilled from a snapshot of 1..U, a chunk above U and a leftover chunk
\* at or below U
C20_Witness ==
  /\ phase = "serving"
  /\ crashes > 0
  /\ \A c \in Clients : pc[c] = "idle" /\ req[c] = NoRequest
  /\ requestCh = <<>>
  /\ wpc = "idle"
  /\ cumulativeSize = 0
  /\ \E U \in 1..MaxRevision, N \in 1..MaxRevision :
       /\ U < N
       /\ SnapshotPlusChunks(s3, U, N)
       /\ \E o \in s3 : o.key.dir = "chunks" /\ o.key.revision <= U
       /\ lastSnapshotRevision = U
       /\ nextRevisionID = N + 1
       /\ index = FileRecords(LatestSnapshotObjects(s3))
                    \cup FileRecords(ChunkObjectsAfter(s3, U))

(***************************************************************************)
(* C18, C19: the watcher's inbox under concurrent Distribute, progress     *)
(* reports, watch requests and Cleanup.                                    *)
(***************************************************************************)
\* C18: under every interleaving of Distribute, the progress poll, progress
\* requests, CreateWatch, CancelWatch and Cleanup, no goroutine sends on a
\* watcher's inbox channel after Cleanup has closed it: no send on a closed
\* inbox has happened, and no goroutine holding messages for a watcher's
\* inbox finds it closed.
C18_NoSendOnClosedInbox ==
  /\ ~sentOnClosed
  /\ \A w \in Watchers :
       inboxClosed[w] =>
         /\ stream[w].msgs = <<>>
         /\ ticker[w].msgs = <<>>
         /\ \A c \in Clients : ~(dist[c].w = w /\ dist[c].msgs # <<>>)

\* Cleanup has closed an inbox that carried messages of Distribute and of a
\* progress report, while a Distribute call that found the watcher in
\* allWatchers is on its way to it
C18_Witness ==
  \E w \in Watchers :
    /\ inboxClosed[w]
    /\ stream[w].at = "cleanup"
    /\ \E i \in 1..Len(inbox[w]) : "Kv" \in DOMAIN inbox[w][i]
    /\ \E i \in 1..Len(inbox[w]) : "Kv" \notin DOMAIN inbox[w][i]
    /\ \E c \in Clients : dist[c].at = "loop" /\ w \in dist[c].todo

\* a watcher whose dispatch failed: the goroutine draining its inbox has
\* returned after a failed client.Send, or is stuck in a client.Send the
\* client never reads
DispatchFailed(w) == sender[w] \in {"exited", "stalled"}

\* C19: a watch dispatch failure does not affect commits: once a watcher's
\* dispatch has failed, every Txn call whose record is committed eventually
\* returns its response, and the failed watcher is eventually removed from
\* allWatchers.
C19_DispatchFailureLeavesCommits ==
  /\ \A c \in Clients :
       (pc[c] = "returned" /\ \E w \in Watchers : DispatchFailed(w))
         ~> pc[c] = "idle"
  /\ \A w \in Watchers :
       (watcherOpen[w] /\ DispatchFailed(w)) ~> ~watcherOpen[w]

(***************************************************************************)
(* C21: what a snapshot holds, and when the chunks it covers are deleted.  *)
(***************************************************************************)
SnapshotObjects(objs) == {o \in objs : o.key.dir = "snapshots"}

ChunkObjects(objs) == {o \in objs : o.key.dir = "chunks"}

\* the file holds exactly the rows of idx with revision 1..U, ascending
HoldsLogUpTo(file, idx, U) ==
  /\ file.kind = "SNAPSHOT"
  /\ file.count = U
  /\ Len(file.records) = U
  /\ \A i \in 1..U : file.records[i].revision = i /\ file.records[i] \in idx

\* row is in the bucket: in the latest snapshot, or in the chunk of its
\* revision
Reconstructible(objs, row) ==
  \/ \E o \in LatestSnapshotObjects(objs) :
       \E i \in 1..Len(o.file.records) : o.file.records[i] = row
  \/ \E o \in ChunkObjects(objs) :
       /\ o.key.revision = row.revision
       /\ o.file.records = <<row>>

\* C21: a snapshot object the worker uploads for revision U holds exactly
\* the index records with revision 1..U in ascending order; a chunk is
\* deleted only when a snapshot at or above its revision is in the bucket;
\* and on a serving leader every index record is in the latest snapshot or
\* in the chunk of its revision.
C21_SnapshotHoldsLogBeforeChunksGo ==
  [][/\ \A o \in SnapshotObjects(s3') \ SnapshotObjects(s3) :
          HoldsLogUpTo(o.file, index, o.key.revision)
     /\ \A o \in ChunkObjects(s3) \ ChunkObjects(s3') :
          \E n \in SnapshotObjects(s3) :
            /\ n.key.revision >= o.key.revision
            /\ HoldsLogUpTo(n.file, index, n.key.revision)
     /\ phase' = "serving" =>
          \A row \in index' : Reconstructible(s3', row)]_vars

\* a snapshot was uploaded while the index was already ahead of it, the
\* chunks it covers are gone and the chunk above it is still there
C21_Witness ==
  /\ phase = "serving"
  /\ wpc = "idle"
  /\ \E o \in SnapshotObjects(s3) :
       /\ o.key.revision = lastSnapshotRevision
       /\ o.key.revision < LatestRevision(index)
       /\ HoldsLogUpTo(o.file, index, o.key.revision)
       /\ \A k \in ChunkObjects(s3) : k.key.revision > o.key.revision
       /\ \E k \in ChunkObjects(s3) : k.key.revision = LatestRevision(index)

(***************************************************************************)
(* C22: no serving without a passing integrity check.                      *)
(***************************************************************************)
\* C22: a startup ends serving only with COUNT(records) = MAX(revision);
\* when the two differ after backfill the process exits: it stays down, the
\* revision counter is not initialised, the snapshot worker takes nothing
\* and no Txn call runs.
C22_ServesOnlyAfterIntegrityCheck ==
  [][/\ (phase = "down" /\ phase' = "serving")
          => Cardinality(index') = LatestRevision(index')
     /\ (phase = "down" /\ crashes' = crashes
           /\ Cardinality(index') # LatestRevision(index'))
          => /\ phase' = "down"
             /\ UNCHANGED <<nextRevisionID, txnVars, workerVars, s3>>
     /\ phase' = "down"
          => /\ \A c \in Clients : pc'[c] = "idle"
             /\ wpc' = "idle"
             /\ requestCh' = <<>>]_vars

\* a startup has exited on the integrity check: the backfilled index has a
\* gap and the process is down
C22_Witness ==
  /\ phase = "down"
  /\ index # {}
  /\ Cardinality(index) # LatestRevision(index)

(***************************************************************************)
(* C23: replaying the chunks through ReplicateRecord.                      *)
(***************************************************************************)
\* C23: on a leader with no Txn call in progress and no snapshot pass so
\* far, replaying the chunk of a committed record into an index that lacks
\* its revision gives back the row InsertRecord produced, and the index
\* rebuilt by replaying every chunk of the bucket in ascending order equals
\* the leader's index.
C23_ReplayIsFaithful ==
  (/\ phase = "serving"
   /\ \A c \in Clients : pc[c] = "idle"
   /\ SnapshotObjects(s3) = {})
  => /\ \A row \in index :
          \E o \in ChunkObjects(s3) :
            /\ o.key = ChunkKey(row.revision)
            /\ ImportFile(index \ {row}, o.file, "CHUNK")
                 = [err |-> "", idx |-> index]
     /\ ImportChunks({}, ListChunks(s3, 0)) = [err |-> "", idx |-> index]

(***************************************************************************)
(* The crashing leader with a snapshot worker that keeps running: the      *)
(* worker goroutine loops on its request channel (Worker.run), so a        *)
(* queued request is eventually processed and a pass that has uploaded its *)
(* snapshot goes on to its cleanup.  Whether an S3 call succeeds, whether  *)
(* clients send further transactions and whether the process crashes are   *)
(* not the scheduler's choice and get no fairness.                         *)
(***************************************************************************)
FairWorker == WF_vars(WorkerStep)

SpecRecoveryFair == SpecRecovery /\ FairWorker

HasSnapshotAt(objs, U) == \E o \in SnapshotObjects(objs) : o.key.revision = U

HasChunkAt(objs, r) == \E o \in ChunkObjects(objs) : o.key.revision = r

MaxRecords == 2
MaxCodecRevision == 2

KindSnapshot == 1
KindChunk == 2
CompressionUnknown == 0
CompressionNone == 1
CompressionZstd == 2
\* NewReader called with expectKind = nil
NoKind == 0

RecordSchema ==
  << [name |-> "crc", tag |-> 1, kind |-> "varint"],
     [name |-> "revision", tag |-> 2, kind |-> "varint"],
     [name |-> "key", tag |-> 3, kind |-> "bytes"],
     [name |-> "deleted", tag |-> 5, kind |-> "bool"] >>

FileHeaderSchema ==
  << [name |-> "crc", tag |-> 1, kind |-> "varint"],
     [name |-> "kind", tag |-> 3, kind |-> "varint"],
     [name |-> "compression", tag |-> 4, kind |-> "varint"],
     [name |-> "records_count", tag |-> 5, kind |-> "varint"],
     [name |-> "created_at", tag |-> 7, kind |-> "varint"] >>

FileFooterSchema ==
  << [name |-> "records_crc", tag |-> 2, kind |-> "varint"],
     [name |-> "first_revision", tag |-> 3, kind |-> "varint"],
     [name |-> "last_revision", tag |-> 4, kind |-> "varint"],
     [name |-> "crc", tag |-> 8, kind |-> "varint"] >>

\* the fields from the i-th on, each encoded unless it has its default value
RECURSIVE MarshalFrom(_, _, _)
MarshalFrom(m, schema, i) ==
  IF i > Len(schema) THEN <<>>
  ELSE LET f == schema[i]
           v == m[f.name]
           field ==
             CASE f.kind = "varint" -> IF v = 0 THEN <<>> ELSE <<f.tag, v>>
               [] f.kind = "bool" -> IF v THEN <<f.tag, 1>> ELSE <<>>
               [] f.kind = "bytes" -> IF v = <<>> THEN <<>>
                                      ELSE <<f.tag, Len(v)>> \o v
       IN field \o MarshalFrom(m, schema, i + 1)

\* proto.Marshal
Marshal(m, schema) == MarshalFrom(m, schema, 1)

RECURSIVE UnmarshalInto(_, _, _)
UnmarshalInto(m, data, schema) ==
  IF data = <<>> THEN m
  ELSE LET f == CHOOSE g \in {schema[i] : i \in 1..Len(schema)} : g.tag = data[1]
       IN IF f.kind = "bytes"
          THEN UnmarshalInto([m EXCEPT ![f.name] = SubSeq(data, 3, 2 + data[2])],
                             SubSeq(data, 3 + data[2], Len(data)), schema)
          ELSE UnmarshalInto([m EXCEPT ![f.name] = IF f.kind = "bool"
                                                   THEN data[2] = 1
                                                   ELSE data[2]],
                             SubSeq(data, 3, Len(data)), schema)

\* proto.Unmarshal into a fresh message, whose fields have their defaults
Unmarshal(data, schema) ==
  LET fields == {schema[i] : i \in 1..Len(schema)}
      kindOf(n) == (CHOOSE f \in fields : f.name = n).kind
      fresh == [n \in {f.name : f \in fields} |->
                  CASE kindOf(n) = "varint" -> 0
                    [] kindOf(n) = "bool" -> FALSE
                    [] kindOf(n) = "bytes" -> <<>>]
  IN UnmarshalInto(fresh, data, schema)

\* protodelim.MarshalTo: the length, then the message
MarshalDelimited(m, schema) ==
  LET data == Marshal(m, schema) IN <<Len(data)>> \o data

\* protodelim.UnmarshalFrom: the first message of the stream and what follows
UnmarshalDelimited(stream_, schema) ==
  [msg |-> Unmarshal(SubSeq(stream_, 2, 1 + stream_[1]), schema),
   rest |-> SubSeq(stream_, 2 + stream_[1], Len(stream_))]

\* crc64 stands as a rolling checksum over the same bytes; like crc64 it is 0
\* on no data and can be fed piecewise (hash.Hash64.Write)
CrcBase == 31
CrcModulus == 65521

RECURSIVE HasherWrite(_, _)
HasherWrite(h, data) ==
  IF data = <<>> THEN h
  ELSE HasherWrite((h * CrcBase + Head(data) + 1) % CrcModulus, Tail(data))

Checksum(data) == HasherWrite(0, data)

\* zstd stands as a frame with a magic number around the reversed bytes
ZstdMagic == 40
ZstdEncode(data) ==
  <<ZstdMagic, Len(data)>> \o [i \in 1..Len(data) |-> data[Len(data) + 1 - i]]

ZstdDecode(frame) ==
  LET n == frame[2] IN [i \in 1..n |-> frame[2 + n + 1 - i]]

\* NewWriter: the compression follows the kind, the header goes to the buffer
NewWriter(kind, recordsCount) ==
  LET compression == IF kind = KindSnapshot THEN CompressionZstd
                     ELSE CompressionNone
      header == [crc |-> 0, kind |-> kind, compression |-> compression,
                 records_count |-> recordsCount, created_at |-> Now]
      headerData == Marshal(header, FileHeaderSchema)
  IN [buffer |-> MarshalDelimited([header EXCEPT !.crc = Checksum(headerData)],
                                  FileHeaderSchema),
      recordWriter |-> <<>>,
      hasher |-> 0,
      kind |-> kind,
      compression |-> compression,
      recordsCount |-> recordsCount,
      firstRevision |-> 0,
      lastRevision |-> 0,
      lastCount |-> 0]

\* a Write that leaves the record out of the records CRC
WriterWriteUnhashed(w, record) ==
  LET data == Marshal([record EXCEPT !.crc = 0], RecordSchema)
      stamped == [record EXCEPT !.crc = Checksum(data)]
  IN [err |-> "",
      record |-> stamped,
      w |-> [w EXCEPT !.recordWriter = @ \o MarshalDelimited(stamped, RecordSchema),
                      !.firstRevision = IF @ = 0 THEN record.revision ELSE @,
                      !.lastCount = @ + 1,
                      !.lastRevision = record.revision]]

\* Writer.Write: the record's Crc is overwritten (the caller's record too)
WriterWrite(w, record) ==
  LET data == Marshal([record EXCEPT !.crc = 0], RecordSchema)
      stamped == [record EXCEPT !.crc = Checksum(data)]
  IN [err |-> "",
      record |-> stamped,
      w |-> [w EXCEPT !.recordWriter = @ \o MarshalDelimited(stamped, RecordSchema),
                      !.hasher = HasherWrite(@, data),
                      !.firstRevision = IF @ = 0 THEN record.revision ELSE @,
                      !.lastCount = @ + 1,
                      !.lastRevision = record.revision]]

\* a Close that writes the footer whatever the count
WriterCloseUnchecked(w) ==
  LET footer == [records_crc |-> w.hasher,
                 first_revision |-> w.firstRevision,
                 last_revision |-> w.lastRevision,
                 crc |-> 0]
      footerData == Marshal(footer, FileFooterSchema)
      body == w.recordWriter
              \o MarshalDelimited([footer EXCEPT !.crc = Checksum(footerData)],
                                  FileFooterSchema)
  IN [err |-> "",
      file |-> w.buffer \o (IF w.compression = CompressionZstd
                            THEN ZstdEncode(body) ELSE body)]

\* Writer.Close: the footer, then the compressor is closed and the buffer
\* flushed; file is what the buffer holds afterwards
WriterClose(w) ==
  IF w.lastCount # w.recordsCount
  THEN [err |-> "last count does not match expected count", file |-> <<>>]
  ELSE LET footer == [records_crc |-> w.hasher,
                      first_revision |-> w.firstRevision,
                      last_revision |-> w.lastRevision,
                      crc |-> 0]
           footerData == Marshal(footer, FileFooterSchema)
           body == w.recordWriter
                   \o MarshalDelimited([footer EXCEPT !.crc = Checksum(footerData)],
                                       FileFooterSchema)
       IN [err |-> "",
           file |-> w.buffer \o (IF w.compression = CompressionZstd
                                 THEN ZstdEncode(body) ELSE body)]

\* a Reader that has nothing to read
NoReader == [reader |-> <<>>, hasher |-> 0, kind |-> 0, compression |-> 0,
             expectedRecordsCount |-> 0, firstRevision |-> 0,
             lastRevision |-> 0, lastCount |-> 0]

\* NewReader
NewReader(file, expectKind) ==
  LET h == UnmarshalDelimited(file, FileHeaderSchema)
      header == h.msg
      actualCrc == Checksum(Marshal([header EXCEPT !.crc = 0], FileHeaderSchema))
  IN IF expectKind # NoKind /\ expectKind # header.kind
     THEN [err |-> "expected kind mismatch", r |-> NoReader]
     ELSE IF header.compression = CompressionUnknown
     THEN [err |-> "unknown compression type in header", r |-> NoReader]
     ELSE IF header.crc # actualCrc
     THEN [err |-> "header CRC mismatch", r |-> NoReader]
     ELSE [err |-> "",
           r |-> [reader |-> IF header.compression = CompressionZstd
                             THEN ZstdDecode(h.rest) ELSE h.rest,
                  hasher |-> 0,
                  kind |-> header.kind,
                  compression |-> header.compression,
                  expectedRecordsCount |-> header.records_count,
                  firstRevision |-> 0,
                  lastRevision |-> 0,
                  lastCount |-> 0]]

\* Reader.Read
ReaderRead(r) ==
  IF r.reader = <<>>
  THEN [err |-> "unexpected end of file", record |-> Unmarshal(<<>>, RecordSchema), r |-> r]
  ELSE LET d == UnmarshalDelimited(r.reader, RecordSchema)
           record == d.msg
           recordData == Marshal([record EXCEPT !.crc = 0], RecordSchema)
       IN IF record.crc # Checksum(recordData)
          THEN [err |-> "record CRC mismatch", record |-> Unmarshal(<<>>, RecordSchema), r |-> r]
          ELSE [err |-> "",
                record |-> record,
                r |-> [r EXCEPT !.reader = d.rest,
                                !.hasher = HasherWrite(@, recordData),
                                !.firstRevision = IF @ = 0 THEN record.revision
                                                  ELSE @,
                                !.lastCount = @ + 1,
                                !.lastRevision = record.revision]]

\* ReadResults{}
NoReadResults == [Kind |-> 0, RecordsCount |-> 0, FirstRevision |-> 0,
                  LastRevision |-> 0]

\* Reader.Close
ReaderClose(r) ==
  IF r.lastCount # r.expectedRecordsCount
  THEN [err |-> "last count does not match expected count",
        results |-> NoReadResults]
  ELSE IF r.reader = <<>>
  THEN [err |-> "failed to unmarshal footer", results |-> NoReadResults]
  ELSE LET footer == UnmarshalDelimited(r.reader, FileFooterSchema).msg
           actualCrc == Checksum(Marshal([footer EXCEPT !.crc = 0],
                                         FileFooterSchema))
       IN IF footer.crc # actualCrc
          THEN [err |-> "footer CRC mismatch", results |-> NoReadResults]
          ELSE IF footer.records_crc # r.hasher
          THEN [err |-> "records CRC mismatch", results |-> NoReadResults]
          ELSE IF r.firstRevision # footer.first_revision
          THEN [err |-> "first revision does not match", results |-> NoReadResults]
          ELSE IF r.lastRevision # footer.last_revision
          THEN [err |-> "last revision does not match", results |-> NoReadResults]
          ELSE [err |-> "",
                results |-> [Kind |-> r.kind,
                             RecordsCount |-> r.lastCount,
                             FirstRevision |-> r.firstRevision,
                             LastRevision |-> r.lastRevision]]

\* the records a caller may hand to the Writer
CodecRecords ==
  [crc : {0, 5}, revision : 0..MaxCodecRevision, key : {<<>>, <<97>>},
   deleted : BOOLEAN]

RECURSIVE SeqsUpTo(_, _)
SeqsUpTo(S, n) ==
  IF n = 0 THEN {<<>>}
  ELSE LET shorter == SeqsUpTo(S, n - 1)
       IN shorter \cup {Append(q, x) : q \in {p \in shorter : Len(p) = n - 1},
                                       x \in S}

\* a caller with its records, the count it declares and the kind it expects
InitCodec ==
  /\ InitLeader
  /\ policy = [at |-> "none"]
  /\ events = [at |-> "none"]
  /\ match = [at |-> "none"]
  /\ replies = [w \in Watchers |-> <<>>]
  /\ \E original \in SeqsUpTo(CodecRecords, MaxRecords),
        kind \in {KindSnapshot, KindChunk},
        expectKind \in {NoKind, KindChunk} :
     \E declared \in {Len(original), MaxRecords} :
       codec = [at |-> "start", original |-> original, records |-> original,
                kind |-> kind, declared |-> declared, expectKind |-> expectKind,
                w |-> NewWriter(0, 0), file |-> <<>>, r |-> NoReader,
                read |-> <<>>, results |-> NoReadResults, err |-> ""]

CodecNewWriter ==
  /\ codec.at = "start"
  /\ codec' = [codec EXCEPT !.at = "writing",
                            !.w = NewWriter(codec.kind, codec.declared)]
  /\ UNCHANGED <<leaderVars, match, replies, policy, events>>

\* the caller writes its next record
CodecWrite ==
  /\ codec.at = "writing"
  /\ codec.w.lastCount < Len(codec.records)
  /\ LET i == codec.w.lastCount + 1
         out == WriterWrite(codec.w, codec.records[i])
     IN codec' = [codec EXCEPT !.w = out.w, !.records[i] = out.record]
  /\ UNCHANGED <<leaderVars, match, replies, policy, events>>

\* the caller has written all its records and closes the Writer
CodecWriterClose ==
  /\ codec.at = "writing"
  /\ codec.w.lastCount = Len(codec.records)
  /\ LET out == WriterClose(codec.w)
     IN codec' = [codec EXCEPT !.at = IF out.err = "" THEN "written"
                                      ELSE "write failed",
                               !.file = out.file,
                               !.err = out.err]
  /\ UNCHANGED <<leaderVars, match, replies, policy, events>>

CodecNewReader ==
  /\ codec.at = "written"
  /\ LET out == NewReader(codec.file, codec.expectKind)
     IN codec' = [codec EXCEPT !.at = IF out.err = "" THEN "reading"
                                      ELSE "read failed",
                               !.r = out.r,
                               !.err = out.err]
  /\ UNCHANGED <<leaderVars, match, replies, policy, events>>

\* the caller reads Count() records
CodecRead ==
  /\ codec.at = "reading"
  /\ codec.r.lastCount < codec.r.expectedRecordsCount
  /\ LET out == ReaderRead(codec.r)
     IN codec' = [codec EXCEPT !.at = IF out.err = "" THEN "reading"
                                      ELSE "read failed",
                               !.r = out.r,
                               !.read = IF out.err = "" THEN Append(@, out.record)
                                        ELSE @,
                               !.err = out.err]
  /\ UNCHANGED <<leaderVars, match, replies, policy, events>>

CodecReaderClose ==
  /\ codec.at = "reading"
  /\ codec.r.lastCount = codec.r.expectedRecordsCount
  /\ LET out == ReaderClose(codec.r)
     IN codec' = [codec EXCEPT !.at = IF out.err = "" THEN "closed"
                                      ELSE "read failed",
                               !.results = out.results,
                               !.err = out.err]
  /\ UNCHANGED <<leaderVars, match, replies, policy, events>>

NextCodec ==
  \/ CodecNewWriter
  \/ CodecWrite
  \/ CodecWriterClose
  \/ CodecNewReader
  \/ CodecRead
  \/ CodecReaderClose

SpecCodec == InitCodec /\ [][NextCodec]_vars

\* the caller declared the number of records it writes and expects the kind
\* it wrote (or any kind)
CodecWellUsed ==
  /\ codec.declared = Len(codec.original)
  /\ codec.expectKind \in {NoKind, codec.kind}

WithoutCrc(records) == [i \in 1..Len(records) |-> [records[i] EXCEPT !.crc = 0]]

C25_WitnessEmpty ==
  /\ codec.at = "closed"
  /\ codec.original = <<>>

(***************************************************************************)
(* InsertRecord's outcomes, over the index states a leader reaches and the *)
(* draft records LeaderTxn hands to InsertRecord in them (every parsed     *)
(* request, with the next revision).                                       *)
(***************************************************************************)
DraftRecords ==
  {[ParseTxnRequest(r).record EXCEPT !.revision = nextRevisionID] :
     r \in {q \in IndexRequests : ParseTxnRequest(q).err = ""}}

\* the outcome the policy rules name for a draft record: a sentinel, or ""
\* for an insert
PolicyOutcome(idx, record) ==
  LET l == LatestForKey(idx, record.key)
      live == l # NoRecord /\ ~l.deleted
  IN IF record.created /\ live THEN "ErrCreateKeyExists"
     ELSE IF record.deleted /\ ~live THEN "ErrDeleteKeyNotFound"
     ELSE IF ~record.created
             /\ record.prev_revision # (IF live THEN l.revision ELSE 0)
       THEN "ErrCompareRevisionFailed"
     ELSE ""

\* InsertRecord answers a draft record as the policy rules say
FollowsPolicy(idx, record) ==
  LET out == InsertRecord(idx, record)
      expected == PolicyOutcome(idx, record)
  IN /\ out.err = expected
     /\ IF expected = "" THEN /\ out.row # NoRecord
                              /\ out.row.revision = record.revision
                              /\ out.row.key = record.key
        ELSE out.row = NoRecord

C27_CleanupCompletes ==
  \A w \in Watchers :
    (stream[w].at = "cleanup")
      ~> (stream[w].at = "none" /\ ~watcherOpen[w] /\ ~wWriter[w])

(***************************************************************************)
(* isWatchMatch on its own: one watch and one record, with keys and range  *)
(* ends over a small byte alphabet that has 0x00 and 0xff in it.           *)
(***************************************************************************)
MaxKeyLen == 2

MatchBytes == {0, 97, 255}

\* isInRange slices rangeKeyCopy[:len(rangeKeyCopy)-1] whenever the record
\* key is not empty: with an empty range key that is a slice bound of -1,
\* a run-time panic
isInRangePanics(key, rangeKey) == Len(key) > 0 /\ Len(rangeKey) = 0

\* what a call of isWatchMatch comes to: "true", "false" or "panic"
WatchMatchOutcome(w, record) ==
  IF w.filtersNoPut /\ ~record.deleted THEN "false"
  ELSE IF w.filtersNoDelete /\ record.deleted THEN "false"
  ELSE IF w.startRevision > record.revision THEN "false"
  ELSE IF isInRangePanics(record.key, w.key) THEN "panic"
  ELSE IF isWatchMatch(w, record) THEN "true"
  ELSE "false"

InitMatch ==
  /\ InitLeader
  /\ policy = [at |-> "none"]
  /\ events = [at |-> "none"]
  /\ codec = [at |-> "none"]
  /\ replies = [w \in Watchers |-> <<>>]
  /\ \E key \in SeqsUpTo(MatchBytes, MaxKeyLen),
        rangeKey \in SeqsUpTo(MatchBytes, MaxKeyLen),
        rangeEnd \in SeqsUpTo(MatchBytes, MaxKeyLen),
        noPut \in BOOLEAN, noDelete \in BOOLEAN, deleted \in BOOLEAN,
        startRevision \in {1, 2} :
       match = [at |-> "call",
                w |-> [key |-> rangeKey, rangeEnd |-> rangeEnd,
                       startRevision |-> startRevision,
                       filtersNoPut |-> noPut, filtersNoDelete |-> noDelete],
                record |-> [key |-> key, revision |-> 1, deleted |-> deleted],
                result |-> ""]

\* the call is made
MatchStep ==
  /\ match.at = "call"
  /\ match' = [match EXCEPT !.at = "done",
                            !.result = WatchMatchOutcome(match.w, match.record)]
  /\ UNCHANGED <<leaderVars, codec, replies, policy, events>>

SpecMatch == InitMatch /\ [][MatchStep]_vars

\* the range rules as stated: equality for an empty range end or range end =
\* key + 0x00, every key for key = range end = 0x00, record key >= key for
\* range end = 0x00, prefix for range end = key with its last byte
\* incremented (0xff wrapping to 0x00), key <= record key < range end
\* otherwise
InRangeByRule(key, rangeKey, rangeEnd) ==
  IF rangeEnd = <<>> \/ rangeEnd = rangeKey \o <<0>> THEN key = rangeKey
  ELSE IF rangeKey = <<0>> /\ rangeEnd = <<0>> THEN TRUE
  ELSE IF rangeEnd = <<0>> THEN BytesCompare(key, rangeKey) >= 0
  ELSE IF /\ rangeKey # <<>>
          /\ Len(rangeEnd) = Len(rangeKey)
          /\ \A i \in 1..Len(rangeKey) :
               rangeEnd[i] = IF i < Len(rangeKey) THEN rangeKey[i]
                             ELSE (rangeKey[i] + 1) % 256
    THEN Len(key) >= Len(rangeKey)
         /\ \A i \in 1..Len(rangeKey) : key[i] = rangeKey[i]
  ELSE /\ BytesCompare(key, rangeKey) >= 0
       /\ BytesCompare(key, rangeEnd) < 0

\* C28: isWatchMatch returns true iff the record is not filtered (noPut for
\* puts, noDelete for deletes), its revision is at least the watch's start
\* revision and its key is in range by the stated rules; otherwise it
\* returns false.
C28_WatchMatchByRule ==
  match.at = "done" =>
    match.result =
      IF /\ ~(match.w.filtersNoPut /\ ~match.record.deleted)
         /\ ~(match.w.filtersNoDelete /\ match.record.deleted)
         /\ match.record.revision >= match.w.startRevision
         /\ InRangeByRule(match.record.key, match.w.key, match.w.rangeEnd)
      THEN "true" ELSE "false"

\* the same for the watches whose key is not empty and does not end in 0x00
C28_WatchMatchByRulePlainKeys ==
  (/\ match.at = "done"
   /\ match.w.key # <<>>
   /\ match.w.key[Len(match.w.key)] # 0) => C28_WatchMatchByRule

\* C29: an event pushed for a watch with prev_kv = true carries the key's
\* previous record as PrevKv when the committed record is an update or a
\* delete, and a key-only placeholder when it is a create; an event pushed
\* for a watch with prev_kv = false carries no PrevKv.
C29_PrevKvCarried ==
  \A w \in Watchers : \A i \in 1..Len(inbox[w]) :
    LET m == inbox[w][i]
    IN \A x \in watches[w] : \A row \in index :
         (x.id = m.WatchId /\ row.revision = m.Header.Revision) =>
           m.PrevKv = IF ~x.prevKv THEN "none"
                      ELSE IF row.created THEN "placeholder"
                      ELSE "record"

(***************************************************************************)
(* Create requests that are refused (watcher.CreateWatch, watch.go         *)
(* 123-231).  The requests here also carry a watch id of the client's own  *)
(* choosing and start revisions whose record has compacted_at set.         *)
(***************************************************************************)
ClientWatchIDs == {7}

CreateWatchInputs ==
  [Key : WatchKeys, RangeEnd : WatchRangeEnds,
   StartRevision : 0..2, PrevKv : {FALSE}, NoPut : {FALSE},
   ProgressNotify : {FALSE},
   WatchId : {AutoWatchID} \cup ClientWatchIDs, Compacted : BOOLEAN]

\* one client committing, and a watch stream sending any create request
NextCreateWatch ==
  \/ TxnStep("c1")
  \/ \E w \in Watchers :
       \/ OpenWatch(w)
       \/ \E r \in CreateWatchInputs : CreateWatch(w, r)
       \/ \E id \in 1..MaxWatches : CancelWatch(w, id)
       \/ Cleanup(w)

SpecCreateWatch == Init /\ [][NextCreateWatch]_vars

\* the request carries a watch id of its own, or its start revision is
\* compacted
CreateRefused(r) ==
  \/ r.WatchId # AutoWatchID
  \/ r.StartRevision # 0 /\ GetRevision(index, r.StartRevision, r.Compacted).compacted

\* the messages a step pushed into the watcher's inbox
Pushed(w) ==
  {inbox'[w][i] : i \in (Len(inbox[w]) + 1)..Len(inbox'[w])}

\* C30: a create request that carries a client-supplied watch id, or whose
\* start revision is compacted, is answered with a created response
\* followed by a canceled response for the same watch id (carrying
\* compact_revision = the start revision in the compacted case), leaves the
\* watcher's watches and inbox as they were, and no later commit pushes an
\* event for it: every event a commit pushes belongs to a registered watch,
\* and the watch id drawn for a compacted request is never among them.
C30_RefusedCreateRegistersNothing ==
  [][ \A w \in Watchers :
        /\ \A r \in CreateWatchInputs :
             (CreateWatch(w, r) /\ CreateRefused(r)) =>
               /\ watches' = watches
               /\ inbox' = inbox
               /\ Len(replies'[w]) = 2
               /\ replies'[w][1].Created /\ ~replies'[w][1].Canceled
               /\ replies'[w][2].Canceled /\ ~replies'[w][2].Created
               /\ replies'[w][2].WatchId = replies'[w][1].WatchId
               /\ replies'[w][2].CompactRevision =
                    IF r.WatchId # AutoWatchID THEN 0 ELSE r.StartRevision
               /\ r.WatchId # AutoWatchID => replies'[w][2].WatchId = r.WatchId
        /\ \A m \in Pushed(w) : \E x \in watches[w] : x.id = m.WatchId
        /\ (Len(replies[w]) = 2 /\ replies[w][2].CompactRevision > 0) =>
             /\ \A x \in watches'[w] : x.id # replies[w][2].WatchId
             /\ \A m \in Pushed(w) : m.WatchId # replies[w][2].WatchId
    ]_vars

\* a create request with the client's own watch id was refused, a record
\* under the watched key was committed and acknowledged afterwards, and the
\* open watcher's inbox holds no event
C30_Witness ==
  /\ watcherOpen["w1"]
  /\ Len(replies["w1"]) = 2
  /\ replies["w1"][2].Canceled
  /\ replies["w1"][2].WatchId \in ClientWatchIDs
  /\ \E rec \in acked : /\ rec.revision > replies["w1"][2].Header.Revision
                        /\ rec.key \in WatchKeys
  /\ watches["w1"] = {}
  /\ inbox["w1"] = <<>>

(***************************************************************************)
(* Progress reports on a watcher that already holds several               *)
(* watches (watcher.ReportProgressOnInterval, watch.go 270-340).  The      *)
(* stream is in its receive loop, the watches were created before any      *)
(* commit, and a client's Txn call commits while the poll goroutine and    *)
(* progress requests report.                                               *)
(***************************************************************************)
MaxReportWatches == 3

\* the watches a stream may have created: every event of key a, with or
\* without prev_kv and progress notifications
ReportWatches ==
  [id : 1..MaxReportWatches, key : {KeyA}, rangeEnd : {<<>>},
   startRevision : {0}, prevKv : {FALSE}, filtersNoPut : {FALSE},
   filtersNoDelete : {FALSE}, progressNotify : BOOLEAN,
   createdRevision : {0}]

InitReport ==
  /\ phase = "serving"
  /\ crashes = 0
  /\ index = {}
  /\ nextRevisionID = 1
  /\ leaderTxnMutex = NoClient
  /\ pc = [c \in Clients |-> "idle"]
  /\ req = [c \in Clients |-> NoRequest]
  /\ inserted = [c \in Clients |-> NoRecord]
  /\ err = [c \in Clients |-> ""]
  /\ resp = [c \in Clients |-> NoResponse]
  /\ s3 = {}
  /\ requestCh = <<>>
  /\ lastSnapshotRevision = 0
  /\ lastSnapshotTime = 0
  /\ cumulativeSize = 0
  /\ wpc = "idle"
  /\ wUpTo = 0
  /\ acked = {}
  /\ InitPure
  /\ watcherOpen = [w \in Watchers |-> TRUE]
  /\ watches \in [Watchers -> {ws \in SUBSET ReportWatches :
                                 \A x, y \in ws : x.id = y.id => x = y}]
  /\ inbox = [w \in Watchers |-> <<>>]
  /\ watchIDCounter = MaxReportWatches
  /\ wWriter = [w \in Watchers |-> FALSE]
  /\ wReaders = [w \in Watchers |-> {}]
  /\ allReaders = {}
  /\ inboxOk = [w \in Watchers |-> TRUE]
  /\ inboxClosed = [w \in Watchers |-> FALSE]
  /\ sender = [w \in Watchers |-> "receiving"]
  /\ stream = [w \in Watchers |-> At("loop")]
  /\ ticker = [w \in Watchers |-> At("idle")]
  /\ dist = [c \in Clients |-> NoDistribute]
  /\ sentOnClosed = FALSE

\* the reports of a watcher while a client's Txn call commits
NextReport ==
  \/ TxnCall("c1")
  \/ \E w \in Watchers, g \in {"ticker", "stream"} : ProgressCall(w, g)

SpecReport == InitReport /\ [][NextReport]_vars

\* the progress report of goroutine g on watcher w: its position, the
\* revision it read and the messages it has still to send
ReportOf(w, g) == IF g = "stream" THEN stream[w] ELSE ticker[w]

\* msgs is what one report for the watches ws and the revision read has to
\* emit: one broadcast message (watch id -1) when every watch has progress
\* notifications enabled, else one message per enabled watch
ReportByRule(msgs, ws, revision) ==
  LET enabled == {x.id : x \in {y \in ws : y.progressNotify}}
  IN /\ \A i \in 1..Len(msgs) :
          /\ msgs[i].Header.Revision = revision
          /\ DOMAIN msgs[i] = {"WatchId", "Header"}
     /\ IF \A x \in ws : x.progressNotify
        THEN Len(msgs) = 1 /\ msgs[1].WatchId = -1
        ELSE /\ Len(msgs) = Cardinality(enabled)
             /\ \A id \in enabled :
                  Cardinality({i \in 1..Len(msgs) : msgs[i].WatchId = id}) = 1

\* C31: a progress report (a tick of the poll goroutine or a progress
\* request) on a watcher whose inbox is ok reads the latest revision of the
\* index, and then emits exactly one broadcast message with watch id -1 when
\* every registered watch has progress notifications enabled, else exactly
\* one message per watch that has them enabled and none for the others;
\* every message carries the revision read, the messages go to the inbox
\* one by one, and the report returns only when all of them are sent.
C31_ProgressReportByRule ==
  [][ \A w \in Watchers : \A g \in {"ticker", "stream"} :
        LET before == ReportOf(w, g)
            after == ReportOf(w, g)'
        IN /\ (before.at # "read" /\ after.at = "read") =>
                after.revision = LatestRevision(index)
           /\ (before.at = "read" /\ after.at = "progress") =>
                /\ inboxOk[w]
                /\ ReportByRule(after.msgs, watches[w], before.revision)
           /\ (before.at = "read" /\ after.at \notin {"read", "progress"}) =>
                ~inboxOk[w] /\ inbox' = inbox
           /\ (before.at = "progress" /\ after # before) =>
                IF before.msgs = <<>>
                THEN after.at # "progress" /\ inbox' = inbox
                ELSE /\ after = [before EXCEPT !.msgs = Tail(@)]
                     /\ inbox'[w] = Append(inbox[w], Head(before.msgs))
                     /\ watches' = watches
           /\ (inbox'[w] # inbox[w]) =>
                \E h \in {"ticker", "stream"} :
                  /\ ReportOf(w, h).at = "progress"
                  /\ ReportOf(w, h).msgs # <<>>
                  /\ inbox'[w] = Append(inbox[w], Head(ReportOf(w, h).msgs))
                  /\ ReportOf(w, h)' # ReportOf(w, h)
    ]_vars

\* the poll goroutine has reported on a watcher with three watches, two of
\* them with progress notifications: after the commit of revision 1 it sent
\* one message for each of the two, and has returned
C31_Witness ==
  /\ Cardinality(watches["w1"]) = 3
  /\ Cardinality({x \in watches["w1"] : x.progressNotify}) = 2
  /\ Len(inbox["w1"]) = 2
  /\ inbox["w1"][1].WatchId # inbox["w1"][2].WatchId
  /\ \A i \in 1..2 :
       /\ inbox["w1"][i].Header.Revision = 1
       /\ \E x \in watches["w1"] :
            x.progressNotify /\ x.id = inbox["w1"][i].WatchId
  /\ ticker["w1"].at = "idle"
  /\ stream["w1"].at = "loop"
  /\ wReaders["w1"] = {}

(***************************************************************************)
(* Worker.shouldCreateSnapshot on its own (part_007 150-195): every        *)
(* configuration of the three thresholds, disabled (0) or not, and every   *)
(* request and worker state around them.                                   *)
(***************************************************************************)
MaxThreshold == 2
MaxPolicyTime == 3

\* cumulative sizes just below and at each multiple of a megabyte
PolicySizes ==
  {k * BytesPerMB + d : k \in 0..MaxThreshold, d \in {-1, 0}} \ {-1}

InitPolicy ==
  /\ InitLeader
  /\ codec = [at |-> "none"]
  /\ match = [at |-> "none"]
  /\ events = [at |-> "none"]
  /\ replies = [w \in Watchers |-> <<>>]
  /\ \E records \in 0..MaxThreshold, ageMinutes \in 0..MaxThreshold,
        sizeMB \in 0..MaxThreshold,
        currentRevision \in 0..MaxRevision, lastRevision \in 0..MaxRevision,
        currentTime \in 1..MaxPolicyTime, lastTime \in 0..MaxPolicyTime,
        cumulativeBytes \in PolicySizes :
       policy = [at |-> "call",
                 config |-> [records |-> records, ageMinutes |-> ageMinutes,
                             sizeMB |-> sizeMB],
                 currentRevision |-> currentRevision,
                 currentTime |-> currentTime,
                 cumulativeSize |-> cumulativeBytes,
                 lastRevision |-> lastRevision,
                 lastTime |-> lastTime,
                 result |-> FALSE]

PolicyStep ==
  /\ policy.at = "call"
  /\ policy' = [policy EXCEPT
       !.at = "done",
       !.result = shouldCreateSnapshot(policy.config, policy.currentRevision,
                                       policy.currentTime,
                                       policy.cumulativeSize,
                                       policy.lastRevision, policy.lastTime)]
  /\ UNCHANGED <<leaderVars, codec, match, replies, events>>

SpecPolicy == InitPolicy /\ [][PolicyStep]_vars

\* the three thresholds of the call, each met only when it is enabled
RecordsMet ==
  /\ policy.config.records # 0
  /\ policy.currentRevision - policy.lastRevision >= policy.config.records

AgeMet ==
  /\ policy.config.ageMinutes # 0
  /\ \/ policy.lastTime = 0
     \/ policy.currentTime - policy.lastTime >= policy.config.ageMinutes

SizeMet ==
  /\ policy.config.sizeMB # 0
  /\ policy.cumulativeSize >= policy.config.sizeMB * BytesPerMB

\* C32: shouldCreateSnapshot answers true iff currentRevision > lastRevision
\* and at least one enabled threshold is met: records (currentRevision -
\* lastRevision >= thresholdRecords), age (lastTime is zero, or now -
\* lastTime >= thresholdAgeMinutes) or size (cumulativeSize >=
\* thresholdSizeMB * 2^20); a threshold of 0 never fires, and nothing fires
\* when currentRevision <= lastRevision.
C32_FiresIffThresholdMet ==
  policy.at = "done" =>
    /\ policy.result = (/\ policy.currentRevision > policy.lastRevision
                        /\ (RecordsMet \/ AgeMet \/ SizeMet))
    /\ (policy.config.records = 0 /\ policy.config.ageMinutes = 0
        /\ policy.config.sizeMB = 0) => ~policy.result
    /\ policy.currentRevision <= policy.lastRevision => ~policy.result

\* a call that fires on the size threshold alone: the records threshold is
\* disabled, the age threshold is not met, and the cumulative size is
\* exactly thresholdSizeMB megabytes
C32_Witness ==
  /\ policy.at = "done"
  /\ policy.result
  /\ ~RecordsMet /\ ~AgeMet /\ SizeMet
  /\ policy.config.records = 0
  /\ policy.config.ageMinutes > 0
  /\ policy.cumulativeSize = policy.config.sizeMB * BytesPerMB

(***************************************************************************)
(* The datafile codec with a wrong record count (Writer.Close, Reader.Read *)
(* and Reader.Close): callers that declare another count than they write,  *)
(* files that lost their tail, and callers that stop reading early or read *)
(* on after Count() records.                                               *)
(***************************************************************************)
\* the frames of the first n records, as the Writer put them on the stream
RECURSIVE RecordStream(_, _)
RecordStream(records, n) ==
  IF n = 0 THEN <<>>
  ELSE RecordStream(records, n - 1) \o MarshalDelimited(records[n], RecordSchema)

\* a caller with one or more records of distinct revisions and any declared
\* count; kept and footer say what the file on disk holds once it is there
InitCodecCount ==
  /\ InitLeader
  /\ policy = [at |-> "none"]
  /\ events = [at |-> "none"]
  /\ match = [at |-> "none"]
  /\ replies = [w \in Watchers |-> <<>>]
  /\ \E n \in 0..MaxRecords, kind \in {KindSnapshot, KindChunk},
        declared \in 0..MaxRecords :
       codec = [at |-> "start",
                original |-> [i \in 1..n |->
                                [crc |-> 0, revision |-> i, key |-> <<97>>,
                                 deleted |-> FALSE]],
                records |-> [i \in 1..n |->
                               [crc |-> 0, revision |-> i, key |-> <<97>>,
                                deleted |-> FALSE]],
                kind |-> kind, declared |-> declared, expectKind |-> NoKind,
                w |-> NewWriter(0, 0), file |-> <<>>, r |-> NoReader,
                read |-> <<>>, results |-> NoReadResults, err |-> "",
                kept |-> n, footer |-> TRUE, op |-> ""]

\* what is on disk is the header and the first j record frames only: the
\* tail of a written file is lost, or Close failed and the caller kept what
\* the Writer had put out
CodecDamage(j) ==
  /\ codec.at \in {"written", "write failed"}
  /\ codec.footer
  /\ j <= codec.w.lastCount
  /\ LET body == RecordStream(codec.records, j)
     IN codec' = [codec EXCEPT
          !.at = "written",
          !.err = "",
          !.kept = j,
          !.footer = FALSE,
          !.file = codec.w.buffer \o (IF codec.w.compression = CompressionZstd
                                      THEN ZstdEncode(body) ELSE body)]
  /\ UNCHANGED <<leaderVars, match, replies, policy, events>>

\* a caller that calls Read or Close whatever Count() says.  Left out are
\* the calls that would parse a frame as another message than it is: a Read
\* whose next frame is a non-empty footer, and a Close after exactly Count()
\* records whose next frame is a record.
CodecCaller(op) ==
  /\ codec.at = "reading"
  /\ IF codec.r.reader = <<>> THEN TRUE
     ELSE IF codec.r.reader[1] = 0 THEN TRUE
     ELSE IF op = "Read" THEN codec.r.lastCount < codec.kept
     ELSE (codec.r.lastCount # codec.r.expectedRecordsCount
           \/ codec.r.lastCount = codec.kept)
  /\ IF op = "Read"
     THEN LET out == ReaderRead(codec.r)
          IN codec' = [codec EXCEPT
               !.at = IF out.err = "" THEN "reading" ELSE "read failed",
               !.r = out.r,
               !.read = IF out.err = "" THEN Append(@, out.record) ELSE @,
               !.err = out.err,
               !.op = op]
     ELSE LET out == ReaderClose(codec.r)
          IN codec' = [codec EXCEPT
               !.at = IF out.err = "" THEN "closed" ELSE "read failed",
               !.results = out.results,
               !.err = out.err,
               !.op = op]
  /\ UNCHANGED <<leaderVars, match, replies, policy, events>>

NextCodecCount ==
  \/ CodecNewWriter
  \/ CodecWrite
  \/ CodecWriterClose
  \/ \E j \in 0..MaxRecords : CodecDamage(j)
  \/ CodecNewReader
  \/ \E op \in {"Read", "Close"} : CodecCaller(op)

SpecCodecCount == InitCodecCount /\ [][NextCodecCount]_vars

\* C33: the codec rejects a record-count mismatch on both sides.
\* Writer.Close returns an error whenever the number of records written
\* differs from the declared records_count, fewer or more; Reader.Read
\* returns an error (and no record) when the file ends before the declared
\* count; Reader.Close returns an error and empty results whenever the
\* number of records read differs from the declared count.
C33_CountMismatchRejected ==
  [][ /\ (codec.at = "writing" /\ codec'.at \in {"written", "write failed"}) =>
           (Len(codec.original) # codec.declared =>
              /\ codec'.at = "write failed"
              /\ codec'.err # "")
      /\ (codec.at = "reading" /\ codec' # codec) =>
           /\ Len(codec.read) = codec.r.lastCount
           /\ codec.r.expectedRecordsCount = codec.declared
           /\ (/\ codec'.op = "Read"
               /\ ~codec.footer
               /\ codec.kept < codec.declared
               /\ Len(codec.read) = codec.kept) =>
                /\ codec'.at = "read failed"
                /\ codec'.err # ""
                /\ codec'.read = codec.read
           /\ (codec'.op = "Close" /\ Len(codec.read) # codec.declared) =>
                /\ codec'.at = "read failed"
                /\ codec'.err # ""
                /\ codec'.results = NoReadResults
    ]_vars

\* a file declared for two records lost its tail after the first; the first
\* Read returned it and the second Read failed
C33_Witness ==
  /\ codec.at = "read failed"
  /\ codec.op = "Read"
  /\ codec.declared = 2
  /\ codec.kept = 1
  /\ ~codec.footer
  /\ Len(codec.read) = 1
  /\ codec.read[1] = codec.records[1]

\* Writer.Close refused two records written under a declared count of one
C33_WitnessWriter ==
  /\ codec.at = "write failed"
  /\ Len(codec.original) = 2
  /\ codec.declared = 1

\* Reader.Close refused after one of the two declared records was read
C33_WitnessClose ==
  /\ codec.at = "read failed"
  /\ codec.op = "Close"
  /\ codec.declared = 2
  /\ Len(codec.read) = 1
  /\ codec.footer

\* a create Txn on the empty key: compare mod_revision = 0 on key "" and a
\* success put of key ""
EmptyKeyCreate(r) ==
  /\ r.key = KeyEmpty
  /\ r.successKey = KeyEmpty
  /\ r.mod = 0
  /\ r.op = "put"
  /\ ~r.prevKv

\* C34: the empty byte string is a valid record key: a create Txn whose
\* compare key and success put key are both empty is accepted by
\* ParseTxnRequest, and when the index holds no record of the empty key and
\* the index transaction could be begun, LeaderTxn builds a response with
\* Succeeded = true for a record of the empty key that carries the next
\* revision.
C34_EmptyKeyCreateCommits ==
  \A c \in Clients :
    (/\ pc[c] \in {"upload", "commit", "built"}
     /\ EmptyKeyCreate(req[c])
     /\ \A row \in index : row.key = KeyEmpty => row = inserted[c]
     /\ err[c] \notin {"failed to begin transaction", "S3 upload failed",
                       "failed to commit transaction"}) =>
      /\ ParseTxnRequest(req[c]).err = ""
      /\ ParseTxnRequest(req[c]).record.key = KeyEmpty
      /\ err[c] = ""
      /\ inserted[c] # NoRecord
      /\ inserted[c].key = KeyEmpty
      /\ pc[c] = "built" => resp[c].Succeeded

(***************************************************************************)
(* Watches that start at a past revision (watcher.CreateWatch, watch.go    *)
(* 123-231; isWatchMatch 424-447; the receive loop of clientapi.Watch).    *)
(***************************************************************************)
\* the watcher's inbox has carried an event of the watch for the row
Delivered(w, x, row) ==
  \E i \in 1..Len(inbox[w]) :
    /\ inbox[w][i].WatchId = x.id
    /\ inbox[w][i].Header.Revision = row.revision

\* C35: a watch created with a start revision S > 0 that is not compacted
\* receives an event for every committed record with revision >= S that it
\* matches, those committed before the watch was created included: once no
\* Txn call is in flight, the inbox of the watcher has carried an event of
\* the watch for each such record of the index.
C35_WatchReceivesFromStart ==
  \A w \in Watchers : \A x \in watches[w] :
    (/\ phase = "serving"
     /\ watcherOpen[w]
     /\ x.startRevision > 0
     /\ \A c \in Clients : pc[c] = "idle") =>
      \A row \in index :
        (row.revision >= x.startRevision /\ isWatchMatch(x, row)) =>
          Delivered(w, x, row)

(***************************************************************************)
(* Progress reports against the events of commits (ReportProgressOnInterval*)
(* watch.go 280-340; clientapi.Txn and Distribute, watch.go 346-421).      *)
(***************************************************************************)
\* message i of the watcher's inbox is a progress notification
IsProgress(w, i) == "Kv" \notin DOMAIN inbox[w][i]

\* an event of watch x for the row went through the inbox before message i
EventBefore(w, i, x, row) ==
  \E j \in 1..(i - 1) :
    /\ ~IsProgress(w, j)
    /\ inbox[w][j].WatchId = x.id
    /\ inbox[w][j].Header.Revision = row.revision

\* C36: a progress notification carrying revision R is never delivered to a
\* watcher before an event with revision <= R that matches one of its
\* watches: for every progress message in the inbox and every record that
\* was committed after a watch of the watcher was registered, matches it
\* and has a revision <= R, the event of that watch for the record went
\* through the inbox before the progress message (looked at while every
\* client.Send of the watcher has succeeded).
C36_ProgressAfterEvents ==
  \A w \in Watchers : \A i \in 1..Len(inbox[w]) :
    (sender[w] = "receiving" /\ IsProgress(w, i)) =>
      \A x \in watches[w] : \A row \in index :
        (/\ row.revision > x.createdRevision
         /\ row.revision <= inbox[w][i].Header.Revision
         /\ isWatchMatch(x, row)) =>
          EventBefore(w, i, x, row)

(***************************************************************************)
(* Txn calls after a failed one (LeaderTxn, leader_txn.go 98-112;          *)
(* WriteRecord, write_record.go 18-64; WriteChunkFile, write_chunk.go      *)
(* 19-63).                                                                 *)
(***************************************************************************)
\* C37: a failed Txn never wedges the leader: whatever calls failed before
\* (the chunk put reporting an error, with or without the object stored, or
\* the index commit failing after the upload), the revision a later valid
\* Txn is assigned is not rejected by the If-None-Match precondition: when
\* a call reaches its upload, the bucket holds no chunk object of the
\* revision it was assigned.
C37_AssignedRevisionIsFree ==
  \A c \in Clients :
    pc[c] = "upload" =>
      ~ObjectExists(s3, ChunkObject(inserted[c]).key)

(***************************************************************************)
(* The snapshot worker's state against the bucket (Worker.processRequest,  *)
(* part_007 112-146; createSnapshot 198-278; InitializeWithSnapshot        *)
(* 310-331).                                                               *)
(***************************************************************************)
\* C38: the snapshot worker's last-snapshot revision never exceeds the
\* revision of the newest snapshot object in the bucket (0 when there is
\* none): a pass that fails to read, write or upload leaves the worker's
\* state where the last real snapshot put it.
C38_LastSnapshotIsUploaded ==
  phase = "serving" =>
    lastSnapshotRevision <= GetLatestSnapshot(s3).Revision

(***************************************************************************)
(* Backfill from a local prefix of the log (internal.Backfill, backfill.go *)
(* 27-74; downloadAndImportChunks 101-124; the startup in cmd/root.go      *)
(* 132-189).                                                               *)
(***************************************************************************)
\* the log the bucket holds: the records of the latest snapshot and of the
\* chunks above it
S3Log(objs) ==
  LET snap == GetLatestSnapshot(objs)
      file == (CHOOSE o \in objs : o.key = snap.Key).file
      chunks == {o \in objs : o.key.dir = "chunks" /\ o.key.revision > snap.Revision}
  IN (IF snap.Found THEN {file.records[i] : i \in 1..Len(file.records)} ELSE {})
     \cup {o.file.records[1] : o \in chunks}

\* the bucket holds a snapshot at U and the chunks above U only, together
\* the log 1..N, and the local index holds exactly its revisions 1..L
LocalPrefix ==
  LET snap == GetLatestSnapshot(s3)
      log == S3Log(s3)
  IN /\ snap.Found
     /\ \A o \in s3 : o.key.dir = "chunks" => o.key.revision > snap.Revision
     /\ Revisions(log) = 1..Cardinality(log)
     /\ index = {r \in log : r.revision <= LatestRevision(index)}
     /\ Revisions(index) = 1..LatestRevision(index)

\* C39: backfill recovers from any local prefix: when the bucket holds the
\* log 1..N as a snapshot at U plus the chunks above U and the local index
\* holds exactly the revisions 1..L of it (0 <= L <= N, 0 < L < U
\* included), a startup brings the index to exactly the log 1..N and the
\* leader serves.
C39_BackfillFromAnyPrefix ==
  [][(Startup /\ LocalPrefix) =>
       (phase' = "serving" /\ index' = S3Log(s3))]_vars

(***************************************************************************)
(* One Distribute call over several matching watches (Distribute, watch.go *)
(* 346-421) and the goroutines that drain the inboxes (clientapi.Watch,    *)
(* part_001 58-79).  msg is one struct for the whole call: the send on     *)
(* inboxCh copies it, WatchId by value and Events as a slice of pointers,  *)
(* so every copy shares the one Event whose PrevKv the loop rewrites for   *)
(* each watch.  client.Send serialises the copy later, in the draining     *)
(* goroutine, with no lock against the loop: what it reads of PrevKv is    *)
(* whatever the loop has written by then.                                  *)
(***************************************************************************)
MaxEventWatches == 2

EventWatchers == {"w1", "w2"}

\* the record being distributed, an update of key a, and the record before
EventPrevRecord ==
  [revision |-> 1, key |-> KeyA, value |-> "v1", created |-> TRUE,
   deleted |-> FALSE, version |-> 1, lease |-> 0, create_revision |-> 1,
   prev_revision |-> 0]

EventRecord ==
  [revision |-> 2, key |-> KeyA, value |-> "v2", created |-> FALSE,
   deleted |-> FALSE, version |-> 2, lease |-> 0, create_revision |-> 1,
   prev_revision |-> 1]

\* watch id of watcher w on key a, with or without prev_kv
EventWatch(id, prevKv) ==
  [id |-> id, key |-> KeyA, rangeEnd |-> <<>>, startRevision |-> 0,
   prevKv |-> prevKv, filtersNoPut |-> FALSE, filtersNoDelete |-> FALSE,
   progressNotify |-> FALSE, createdRevision |-> 1]

\* Distribute is called with the record and with or without the previous
\* record, on watchers that hold the watches 1..MaxEventWatches between
\* them; every draining goroutine waits on its inbox
InitEvents ==
  /\ InitLeader
  /\ codec = [at |-> "none"]
  /\ match = [at |-> "none"]
  /\ policy = [at |-> "none"]
  /\ replies = [w \in Watchers |-> <<>>]
  /\ \E owner \in [1..MaxEventWatches -> EventWatchers],
        prevKv \in [1..MaxEventWatches -> BOOLEAN],
        prevRecord \in {NoRecord, EventPrevRecord} :
       events = [at |-> "loop",
                 record |-> EventRecord,
                 prevRecord |-> prevRecord,
                 watches |-> [w \in EventWatchers |->
                                {EventWatch(id, prevKv[id]) :
                                   id \in {i \in 1..MaxEventWatches : owner[i] = w}}],
                 visited |-> {},
                 w |-> "none",
                 todo |-> {},
                 watchID |-> 0,
                 prevKv |-> "none",
                 held |-> [w \in EventWatchers |-> 0],
                 sent |-> [w \in EventWatchers |-> <<>>]]

\* the outer loop reaches watcher w (map order: any watcher not yet visited)
\* and takes its read lock
EventsWatcher(w) ==
  /\ events.at = "loop"
  /\ events.todo = {}
  /\ w \notin events.visited
  /\ events' = [events EXCEPT
       !.visited = @ \cup {w},
       !.w = w,
       !.todo = {x.id : x \in events.watches[w]}]
  /\ UNCHANGED <<leaderVars, codec, match, replies, policy>>

\* the inner loop reaches watch id (map order: any watch not yet visited):
\* on a match msg.WatchId is set and msg.Events[0].PrevKv is rewritten for
\* this watch
EventsMatch(id) ==
  /\ events.at = "loop"
  /\ id \in events.todo
  /\ LET x == CHOOSE y \in events.watches[events.w] : y.id = id
     IN events' =
          IF isWatchMatch(x, events.record)
          THEN [events EXCEPT
                  !.todo = @ \ {id},
                  !.watchID = id,
                  !.prevKv = WatchEvent(id, x, events.record,
                                        events.prevRecord).PrevKv,
                  !.at = "send"]
          ELSE [events EXCEPT !.todo = @ \ {id}]
  /\ UNCHANGED <<leaderVars, codec, match, replies, policy>>

\* w.inboxCh <- msg: the draining goroutine, back at its receive, takes the
\* copy (the watch id; the event stays the shared one)
EventsPush ==
  /\ events.at = "send"
  /\ events.held[events.w] = 0
  /\ events' = [events EXCEPT
       !.held[events.w] = events.watchID,
       !.at = "loop"]
  /\ UNCHANGED <<leaderVars, codec, match, replies, policy>>

\* the draining goroutine of w: client.Send(&msg) serialises the message it
\* holds, reading PrevKv through the shared event
EventsDrain(w) ==
  /\ events.at \in {"loop", "send", "done"}
  /\ events.held[w] # 0
  /\ events' = [events EXCEPT
       !.sent[w] = Append(@, [WatchId |-> events.held[w],
                              PrevKv |-> events.prevKv]),
       !.held[w] = 0]
  /\ UNCHANGED <<leaderVars, codec, match, replies, policy>>

\* both loops are over: Distribute returns
EventsReturn ==
  /\ events.at = "loop"
  /\ events.todo = {}
  /\ events.visited = EventWatchers
  /\ events' = [events EXCEPT !.at = "done"]
  /\ UNCHANGED <<leaderVars, codec, match, replies, policy>>

NextEvents ==
  \/ \E w \in EventWatchers : EventsWatcher(w)
  \/ \E id \in 1..MaxEventWatches : EventsMatch(id)
  \/ EventsPush
  \/ \E w \in EventWatchers : EventsDrain(w)
  \/ EventsReturn

SpecEvents == InitEvents /\ [][NextEvents]_vars

\* C40: the events of one committed record are independent per watch: the
\* message a client receives for a watch carries that watch's id and
\* carries PrevKv exactly when that watch asked for prev_kv, whatever the
\* order in which Distribute visits the other watches and whenever the
\* draining goroutine serialises the message.
C40_EventsIndependentPerWatch ==
  events.at # "none" =>
    \A w \in EventWatchers : \A i \in 1..Len(events.sent[w]) :
      \E x \in events.watches[w] :
        /\ x.id = events.sent[w][i].WatchId
        /\ (events.sent[w][i].PrevKv # "none") = x.prevKv

====
